---- MODULE Spec2Model ----
(***************************************************************************)
(* A model of the program-analysis platform: the packet registry           *)
(* (worker/src/packet.rs), the intake and worker threads of the server     *)
(* (server/src/main.rs) and the container driver                           *)
(* (worker/src/util_docker.rs).                                            *)
(*                                                                         *)
(* Spec         the registry, the intake threads, the workers, restarts    *)
(* SpecStatus   one process run in which clients also ask for the status   *)
(* SpecRecover  a process started on a root that earlier runs have filled  *)
(* SpecDock     one driver instance running commands against the engine    *)
(***************************************************************************)
EXTENDS Integers, Sequences, FiniteSets, TLC

(***************************************************************************)
(* Bounds of the model and constants of the program.                       *)
(***************************************************************************)
\* number of distinct submission contents (hashes) the clients upload
NumHashes == 2
\* number of worker threads modelled (the program runs NUMBER_OF_WORKERS)
NumWorkers == 2
\* number of times the process is killed and started again
MaxRestarts == 1
\* number of submit requests served over the whole run
MaxSubmits == 2
\* number of packets earlier runs may have left under the registry root
NumStored == 3
\* threads that call Registry operations at once, and the calls they make
NumLockThreads == 3
MaxLockOps == 4
\* sandbox calls the workers make over the whole run
MaxSandboxCalls == 4
\* number of status requests served over the whole run
MaxStatus == 1
\* server/src/main.rs: const NUMBER_OF_SERVERS
NUMBER_OF_SERVERS == 2

\* util_docker.rs: const DEFAULT_SANDBOX_TIMEOUT (seconds)
DEFAULT_SANDBOX_TIMEOUT == 60
\* tool_gcov.rs: const TIMEOUT_TEST_CASE (seconds), a timeout callers pass
TIMEOUT_TEST_CASE == 10
\* number of driver calls (sandbox or commit) made
MaxCalls == 2
\* the clock advances in steps of TickSecs seconds up to MaxElapsed
TickSecs == 25
MaxElapsed == 75

\* test cases a packet has in input/ and in crash/, at most
MaxCases == 2

\* an upload: files in input/ and in crash/ at most; the size limits of
\* register, 1024 bytes for a test file and 256 * 1024 bytes for main.c,
\* scaled to the lengths of the modelled contents
MaxTests == 2
MaxCrash == 1
TestLimit == 1
ProgramLimit == 2

\* a coverage report: files, functions and lines of a file, branches of a
\* line, and blocks of a function, at most
MaxReportFiles == 1
MaxFuncs == 2
MaxLines == 2
MaxBranches == 1
MaxBlocks == 2

Hashes == 1..NumHashes
ContainerIds == 1..MaxCalls
Servers == 1..NUMBER_OF_SERVERS
Workers == 1..NumWorkers

\* packet.rs: MARKER_ERROR, MARKER_RESULT
MARKER_ERROR == "error"
MARKER_RESULT == "result.json"
\* what register leaves in an installed packet directory
PacketEntries == {"main.c", "interface.h", "input", "crash", "output"}
\* the entries of a validated base (interface.h is optional in an upload)
BaseRequired == {"main.c", "input", "crash"}
BaseOptional == {"interface.h"}

VARIABLES
    \* ---- filesystem under the registry root (survives a restart)
    dirs,       \* the set of H for which <root>/H/ exists
    files,      \* files[H]: the entries present in <root>/H/
    \* ---- Registry (packet.rs: struct Registry), lost on restart
    status,     \* packets: BTreeMap<Packet, Status>; "None" = no key
    queue,      \* queue: Vec<Packet>
    \* ---- server/src/main.rs
    channel,    \* crossbeam unbounded channel of Packet
    phase,      \* "new": Registry::new scanning; "startup": main's
                \* recovery loop; "running": threads spawned
    scan,       \* entries still to visit by Registry::new or by main's loop
    srv,        \* srv[s]: position of intake thread s in handle_submit
    wk,         \* wk[w]: position of worker thread w in its loop
    \* ---- history (not program state)
    nsub,       \* submit requests that reached register's root lock
    okRet,      \* <<H, ticket, existed>> of every register that returned Ok
    cleared,    \* H whose error marker Registry::new removed
    restarts,   \* restarts so far
    sent,       \* sent[H]: sends of H on the channel in this process run
    scheduled,  \* H answered 200 "is scheduled for analysis" in this run
    taken,      \* taken[H]: receives of H from the channel in this run
    answered,   \* H whose status URL a submit response has carried
    nstat,      \* status requests served so far
    \* ---- content of result.json (filesystem, survives a restart)
    partial,    \* H whose result.json was created but not written in full
    \* ---- container engine and driver (util_docker.rs)
    cont,       \* cont[id]: state of the container id, all named
                \* "<tag>-ephemeral-<driver name>"
    image,      \* TRUE when the image committed as new_tag exists
    drv,        \* the driver's position in _run / _exec_async
    frame,      \* the next frame of the followed log stream, if any
    elapsed,    \* seconds since the container was started
    calls,      \* driver calls made so far (history)
    \* ---- the worker crate's functions, each run on its own
    an,         \* process.rs analyze: the stage it is in, the stage results
    pv,         \* worker/src/main.rs: the provisioning binary
    gc,         \* tool_gcov.rs: a coverage report and what is parsed from it
    up,         \* packet.rs register: the uploads and what register returns
    lk,         \* packet.rs Registry: the locks its operations hold
    sb          \* the sandbox calls of the workers and their container names

regVars == <<dirs, files, status, queue, channel, phase, scan, srv, wk,
             nsub, okRet, cleared, restarts, sent, scheduled, nstat,
             partial, taken, answered>>
dockVars == <<cont, image, drv, frame, elapsed, calls>>
toolVars == <<an, pv, gc, up, lk, sb>>
vars == <<regVars, dockVars, toolVars>>

(***************************************************************************)
(* Helpers.                                                                *)
(***************************************************************************)
Count(q, h) == Cardinality({i \in 1..Len(q) : q[i] = h})

\* Vec::retain(|p| p != &packet)
RECURSIVE Retain(_, _)
Retain(q, h) ==
    IF q = <<>> THEN <<>>
    ELSE IF Head(q) = h THEN Retain(Tail(q), h)
         ELSE <<Head(q)>> \o Retain(Tail(q), h)

Min(S) == CHOOSE x \in S : \A y \in S : x <= y

SrvIdle == [pc |-> "idle", h |-> 0, todo |-> {}, ticket |-> 0,
            resp |-> "none", existed |-> FALSE, seen |-> "None", pos |-> 0,
            io |-> FALSE, scratch |-> FALSE]
WkIdle == [pc |-> "idle", h |-> 0, ok |-> FALSE, failed |-> FALSE]

RegistryExists == phase \in {"startup", "running"}

(***************************************************************************)
(* Initial state: the process has been started on an empty registry root,  *)
(* Registry::new has returned (no packet found) and main is about to run   *)
(* its recovery loop and spawn the threads.                                *)
(***************************************************************************)
DrvIdle == [pc |-> "idle", commit |-> FALSE, timed |-> FALSE, timeout |-> 0,
            mine |-> 0, status |-> "none", codes |-> 0, code |-> 0,
            ret |-> "none", ended |-> FALSE, del |-> "none"]

RegInit ==
    /\ dirs = {}
    /\ files = [h \in Hashes |-> {}]
    /\ status = [h \in Hashes |-> "None"]
    /\ queue = <<>>
    /\ channel = <<>>
    /\ phase = "startup"
    /\ scan = {}
    /\ srv = [s \in Servers |-> SrvIdle]
    /\ wk = [w \in Workers |-> WkIdle]
    /\ nsub = 0
    /\ okRet = {}
    /\ cleared = {}
    /\ restarts = 0
    /\ sent = [h \in Hashes |-> 0]
    /\ scheduled = {}
    /\ nstat = 0
    /\ partial = {}
    /\ taken = [h \in Hashes |-> 0]
    /\ answered = {}

DockInit ==
    /\ cont = [id \in ContainerIds |-> "none"]
    /\ image = FALSE
    /\ drv = DrvIdle
    /\ frame = "none"
    /\ elapsed = 0
    /\ calls = 0

\* the functions of the worker crate that are modelled on their own have
\* not been called
ToolIdle == [pc |-> "idle"]
ToolInit ==
    /\ an = ToolIdle
    /\ pv = ToolIdle
    /\ gc = ToolIdle
    /\ up = ToolIdle
    /\ lk = ToolIdle
    /\ sb = ToolIdle

Init == RegInit /\ DockInit /\ ToolInit

(***************************************************************************)
(* Registry::register as called by handle_submit (main.rs 149).  The       *)
(* validation and the hashing work on the request's own scratch directory  *)
(* and give either Malformed or the hash h; the shared state is first      *)
(* touched under the root write lock.                                      *)
(***************************************************************************)
\* a register that creates the packet directory before it has validated
\* the test cases, and leaves it behind when they are rejected
SubmitMalformedStaged(s) ==
    /\ phase = "running"
    /\ srv[s].pc = "idle"
    /\ nsub < MaxSubmits
    /\ nsub' = nsub + 1
    /\ \/ /\ srv' = [srv EXCEPT ![s] = [SrvIdle EXCEPT !.pc = "respond",
                                                       !.resp = "400",
                                                       !.scratch = TRUE]]
          /\ \E h \in Hashes : dirs' = dirs \cup {h}
       \/ /\ \E r \in {"400", "500"} :
                srv' = [srv EXCEPT ![s] = [SrvIdle EXCEPT !.pc = "reply",
                                                          !.resp = r]]
          /\ UNCHANGED dirs
       \/ /\ \E left \in BOOLEAN :
                srv' = [srv EXCEPT ![s] = [SrvIdle EXCEPT !.pc = "reply",
                                                          !.resp = "500",
                                                          !.scratch = left]]
          /\ UNCHANGED dirs
    /\ UNCHANGED dockVars
    /\ UNCHANGED toolVars
    /\ UNCHANGED <<taken, answered>>
    /\ UNCHANGED <<sent, scheduled, nstat, partial>>
    /\ UNCHANGED <<files, status, queue, channel, phase, scan, wk,
                   okRet, cleared, restarts>>

\* register bails during validation (packet.rs 93-217): nothing is shared.
\* Before that, handle_submit returns at once when the body is no ZIP
\* archive (main.rs 121-129, 400), when the scratch directory cannot be
\* created (main.rs 132-137, 500) or when it cannot be filled (main.rs
\* 138-146, 500): this last return drops the TempDir, which removes the
\* directory and ignores a failure to do so.
SubmitMalformed(s) ==
    /\ phase = "running"
    /\ srv[s].pc = "idle"
    /\ nsub < MaxSubmits
    /\ nsub' = nsub + 1
    /\ \/ srv' = [srv EXCEPT ![s] = [SrvIdle EXCEPT !.pc = "respond",
                                                    !.resp = "400",
                                                    !.scratch = TRUE]]
       \/ \E r \in {"400", "500"} :
             srv' = [srv EXCEPT ![s] = [SrvIdle EXCEPT !.pc = "reply",
                                                       !.resp = r]]
       \/ \E left \in BOOLEAN :
             srv' = [srv EXCEPT ![s] = [SrvIdle EXCEPT !.pc = "reply",
                                                       !.resp = "500",
                                                       !.scratch = left]]
    /\ UNCHANGED dockVars
    /\ UNCHANGED toolVars
    /\ UNCHANGED <<taken, answered>>
    /\ UNCHANGED <<sent, scheduled, nstat, partial>>
    /\ UNCHANGED <<dirs, files, status, queue, channel, phase, scan, wk,
                   okRet, cleared, restarts>>

\* a register that takes every directory for a new one
RegisterLockBlind(s, h) ==
    /\ phase = "running"
    /\ srv[s].pc = "idle"
    /\ nsub < MaxSubmits
    /\ nsub' = nsub + 1
    /\ dirs' = dirs \cup {h}
    /\ srv' = [srv EXCEPT ![s] = [SrvIdle EXCEPT
                  !.scratch = TRUE,
                  !.pc = "copy", !.h = h, !.todo = BaseRequired,
                  !.ticket = nsub + 1]]
    /\ UNCHANGED dockVars
    /\ UNCHANGED toolVars
    /\ UNCHANGED <<taken, answered>>
    /\ UNCHANGED <<sent, scheduled, nstat, partial>>
    /\ UNCHANGED <<files, okRet, status, queue, channel, phase, scan, wk,
                   cleared, restarts>>

\* a handle_submit that sends the packet again when register found it
RegisterLockResend(s, h) ==
    /\ phase = "running"
    /\ srv[s].pc = "idle"
    /\ nsub < MaxSubmits
    /\ nsub' = nsub + 1
    /\ IF h \in dirs
       THEN /\ srv' = [srv EXCEPT ![s] = [SrvIdle EXCEPT
                          !.scratch = TRUE,
                          !.pc = "send", !.h = h, !.existed = TRUE]]
            /\ okRet' = okRet \cup {<<h, nsub + 1, TRUE>>}
            /\ UNCHANGED dirs
       ELSE /\ dirs' = dirs \cup {h}
            /\ srv' = [srv EXCEPT ![s] = [SrvIdle EXCEPT
                          !.scratch = TRUE,
                          !.pc = "copy", !.h = h, !.todo = BaseRequired,
                          !.ticket = nsub + 1]]
            /\ UNCHANGED okRet
    /\ UNCHANGED dockVars
    /\ UNCHANGED toolVars
    /\ UNCHANGED <<taken, answered>>
    /\ UNCHANGED <<sent, scheduled, nstat, partial>>
    /\ UNCHANGED <<files, status, queue, channel, phase, scan, wk,
                   cleared, restarts>>

\* a handle_submit that queues the packet again when register found it
RegisterLockRequeue(s, h) ==
    /\ phase = "running"
    /\ srv[s].pc = "idle"
    /\ nsub < MaxSubmits
    /\ nsub' = nsub + 1
    /\ IF h \in dirs
       THEN /\ srv' = [srv EXCEPT ![s] = [SrvIdle EXCEPT
                          !.scratch = TRUE,
                          !.pc = "queue", !.h = h, !.existed = TRUE]]
            /\ okRet' = okRet \cup {<<h, nsub + 1, TRUE>>}
            /\ UNCHANGED dirs
       ELSE /\ dirs' = dirs \cup {h}
            /\ srv' = [srv EXCEPT ![s] = [SrvIdle EXCEPT
                          !.scratch = TRUE,
                          !.pc = "copy", !.h = h, !.todo = BaseRequired,
                          !.ticket = nsub + 1]]
            /\ UNCHANGED okRet
    /\ UNCHANGED dockVars
    /\ UNCHANGED toolVars
    /\ UNCHANGED <<taken, answered>>
    /\ UNCHANGED <<sent, scheduled, nstat, partial>>
    /\ UNCHANGED <<files, status, queue, channel, phase, scan, wk,
                   cleared, restarts>>

\* packet.rs 223-235: under the root write lock, test <root>/h and create
\* it when absent; an existing directory ends register with existed = true
RegisterLock(s, h) ==
    /\ phase = "running"
    /\ srv[s].pc = "idle"
    /\ nsub < MaxSubmits
    /\ nsub' = nsub + 1
    /\ IF h \in dirs
       THEN /\ srv' = [srv EXCEPT ![s] = [SrvIdle EXCEPT
                          !.scratch = TRUE,
                          !.pc = "respond", !.h = h, !.resp = "dup",
                          !.existed = TRUE]]
            /\ okRet' = okRet \cup {<<h, nsub + 1, TRUE>>}
            /\ UNCHANGED dirs
       ELSE \/ /\ dirs' = dirs \cup {h}        \* create_dir_all succeeded
               /\ srv' = [srv EXCEPT ![s] = [SrvIdle EXCEPT
                             !.scratch = TRUE,
                             !.pc = "copy", !.h = h,
                             !.todo = BaseRequired,
                             !.ticket = nsub + 1]]
               /\ UNCHANGED okRet
            \/ /\ srv' = [srv EXCEPT ![s] = [SrvIdle EXCEPT  \* it failed
                             !.scratch = TRUE,
                             !.pc = "respond", !.h = h, !.resp = "400",
                             !.io = TRUE]]
               /\ UNCHANGED <<dirs, okRet>>
    /\ UNCHANGED dockVars
    /\ UNCHANGED toolVars
    /\ UNCHANGED <<taken, answered>>
    /\ UNCHANGED <<sent, scheduled, nstat, partial>>
    /\ UNCHANGED <<files, status, queue, channel, phase, scan, wk,
                   cleared, restarts>>

\* register's error return as handle_submit answers it (main.rs 177-181)
RegisterFails(s) ==
    srv' = [srv EXCEPT ![s] = [SrvIdle EXCEPT !.pc = "respond",
                                              !.h = srv[s].h,
                                              !.resp = "400",
                                              !.io = TRUE,
                                              !.scratch = TRUE]]

\* packet.rs 240, 449-461: copy_dir_recursive copies the entries of the
\* base in directory-listing order, one at a time; any copy may fail
CopyEntry(s) ==
    /\ phase = "running"
    /\ srv[s].pc = "copy"
    /\ srv[s].todo # {}
    /\ \/ \E e \in srv[s].todo :
             /\ files' = [files EXCEPT ![srv[s].h] = @ \cup {e}]
             /\ srv' = [srv EXCEPT ![s].todo = @ \ {e}]
       \/ \E e \in BaseOptional \ files[srv[s].h] :
             /\ files' = [files EXCEPT ![srv[s].h] = @ \cup {e}]
             /\ UNCHANGED srv
       \/ RegisterFails(s) /\ UNCHANGED files
    /\ UNCHANGED dockVars
    /\ UNCHANGED toolVars
    /\ UNCHANGED <<taken, answered>>
    /\ UNCHANGED <<sent, scheduled, nstat, partial>>
    /\ UNCHANGED <<dirs, status, queue, channel, phase, scan, wk, nsub,
                   okRet, cleared, restarts>>

\* packet.rs 242-244: overwrite interface.h with the bundled asset
WriteInterface(s) ==
    /\ phase = "running"
    /\ srv[s].pc = "copy"
    /\ srv[s].todo = {}
    /\ \/ /\ files' = [files EXCEPT ![srv[s].h] = @ \cup {"interface.h"}]
          /\ srv' = [srv EXCEPT ![s].pc = "mkoutput"]
       \/ RegisterFails(s) /\ UNCHANGED files
    /\ UNCHANGED dockVars
    /\ UNCHANGED toolVars
    /\ UNCHANGED <<taken, answered>>
    /\ UNCHANGED <<sent, scheduled, nstat, partial>>
    /\ UNCHANGED <<dirs, status, queue, channel, phase, scan, wk, nsub,
                   okRet, cleared, restarts>>

\* packet.rs 246-252: create output/ and return Ok((packet, false))
CreateOutput(s) ==
    /\ phase = "running"
    /\ srv[s].pc = "mkoutput"
    /\ \/ /\ files' = [files EXCEPT ![srv[s].h] = @ \cup {"output"}]
          /\ srv' = [srv EXCEPT ![s].pc = "queue"]
          /\ okRet' = okRet \cup {<<srv[s].h, srv[s].ticket, FALSE>>}
       \/ RegisterFails(s) /\ UNCHANGED <<files, okRet>>
    /\ UNCHANGED dockVars
    /\ UNCHANGED toolVars
    /\ UNCHANGED <<taken, answered>>
    /\ UNCHANGED <<sent, scheduled, nstat, partial>>
    /\ UNCHANGED <<dirs, status, queue, channel, phase, scan, wk, nsub,
                   cleared, restarts>>

(***************************************************************************)
(* Registry::queue (packet.rs 319-327), one step per lock it takes.        *)
(***************************************************************************)
\* a queue() that puts the new packet at the head of the queue
QueuePushFront(s) ==
    /\ phase = "running"
    /\ srv[s].pc = "queue"
    /\ queue' = <<srv[s].h>> \o queue
    /\ srv' = [srv EXCEPT ![s].pc = "insert"]
    /\ UNCHANGED dockVars
    /\ UNCHANGED toolVars
    /\ UNCHANGED <<taken, answered>>
    /\ UNCHANGED <<sent, scheduled, nstat, partial>>
    /\ UNCHANGED <<dirs, files, status, channel, phase, scan, wk, nsub,
                   okRet, cleared, restarts>>

\* packet.rs 320-322: the packet is pushed at the end of the queue
QueuePush(s) ==
    /\ phase = "running"
    /\ srv[s].pc = "queue"
    /\ queue' = Append(queue, srv[s].h)
    /\ srv' = [srv EXCEPT ![s].pc = "insert"]
    /\ UNCHANGED dockVars
    /\ UNCHANGED toolVars
    /\ UNCHANGED <<taken, answered>>
    /\ UNCHANGED <<sent, scheduled, nstat, partial>>
    /\ UNCHANGED <<dirs, files, status, channel, phase, scan, wk, nsub,
                   okRet, cleared, restarts>>

QueueInsert(s) ==
    /\ phase = "running"
    /\ srv[s].pc = "insert"
    /\ status' = [status EXCEPT ![srv[s].h] = "Received"]
    /\ srv' = [srv EXCEPT ![s].pc = "send"]
    /\ UNCHANGED dockVars
    /\ UNCHANGED toolVars
    /\ UNCHANGED <<taken, answered>>
    /\ UNCHANGED <<sent, scheduled, nstat, partial>>
    /\ UNCHANGED <<dirs, files, queue, channel, phase, scan, wk, nsub,
                   okRet, cleared, restarts>>

\* main.rs 169-172: channel.send(packet); the receiving side is never
\* dropped (main and the workers hold it), so the send succeeds
ChannelSend(s) ==
    /\ phase = "running"
    /\ srv[s].pc = "send"
    /\ channel' = Append(channel, srv[s].h)
    /\ srv' = [srv EXCEPT ![s].pc = "respond", ![s].resp = "new"]
    /\ UNCHANGED dockVars
    /\ UNCHANGED toolVars
    /\ UNCHANGED <<taken, answered>>
    /\ sent' = [sent EXCEPT ![srv[s].h] = @ + 1]
    /\ UNCHANGED <<scheduled, nstat, partial>>
    /\ UNCHANGED <<dirs, files, status, queue, phase, scan, wk, nsub,
                   okRet, cleared, restarts>>

\* a handle_submit that keeps the prepared response when the scratch
\* directory could not be removed
CloseScratchQuiet(s) ==
    /\ phase = "running"
    /\ srv[s].pc = "respond"
    /\ \/ srv' = [srv EXCEPT ![s].pc = "reply", ![s].scratch = FALSE]
       \/ srv' = [srv EXCEPT ![s].pc = "reply"]
    /\ UNCHANGED dockVars
    /\ UNCHANGED toolVars
    /\ UNCHANGED <<taken, answered>>
    /\ UNCHANGED <<sent, scheduled, nstat, partial>>
    /\ UNCHANGED <<dirs, files, status, queue, channel, phase, scan, wk,
                   nsub, okRet, cleared, restarts>>

\* main.rs 183-191: the scratch directory is removed; when that fails the
\* prepared response is replaced by a 500
CloseScratch(s) ==
    /\ phase = "running"
    /\ srv[s].pc = "respond"
    /\ \/ srv' = [srv EXCEPT ![s].pc = "reply", ![s].scratch = FALSE]
       \/ srv' = [srv EXCEPT ![s].pc = "reply", ![s].resp = "500"]
    /\ UNCHANGED dockVars
    /\ UNCHANGED toolVars
    /\ UNCHANGED <<taken, answered>>
    /\ UNCHANGED <<sent, scheduled, nstat, partial>>
    /\ UNCHANGED <<dirs, files, status, queue, channel, phase, scan, wk,
                   nsub, okRet, cleared, restarts>>

\* main.rs 304: the response is sent; the thread waits for the next
\* request
Respond(s) ==
    /\ phase = "running"
    /\ srv[s].pc = "reply"
    /\ srv' = [srv EXCEPT ![s] = SrvIdle]
    /\ scheduled' = IF srv[s].resp = "new" THEN scheduled \cup {srv[s].h}
                    ELSE scheduled
    /\ answered' = IF srv[s].resp \in {"new", "dup"}
                   THEN answered \cup {srv[s].h}
                   ELSE answered
    /\ UNCHANGED taken
    /\ UNCHANGED dockVars
    /\ UNCHANGED toolVars
    /\ UNCHANGED <<sent, nstat, partial>>
    /\ UNCHANGED <<dirs, files, status, queue, channel, phase, scan, wk,
                   nsub, okRet, cleared, restarts>>

(***************************************************************************)
(* The worker loop (main.rs 227-266) with Registry::save_result and        *)
(* Registry::save_error (packet.rs 330-371), one step per lock or          *)
(* filesystem call.                                                        *)
(***************************************************************************)
\* main.rs 229: c_recv.recv()
Recv(w) ==
    /\ phase = "running"
    /\ wk[w].pc = "idle"
    /\ channel # <<>>
    /\ wk' = [wk EXCEPT ![w] = [WkIdle EXCEPT !.pc = "analyze",
                                              !.h = Head(channel),
                                              !.failed = wk[w].failed]]
    /\ channel' = Tail(channel)
    /\ taken' = [taken EXCEPT ![Head(channel)] = @ + 1]
    /\ UNCHANGED answered
    /\ UNCHANGED dockVars
    /\ UNCHANGED toolVars
    /\ UNCHANGED <<sent, scheduled, nstat, partial>>
    /\ UNCHANGED <<dirs, files, status, queue, phase, scan, srv, nsub,
                   okRet, cleared, restarts>>

\* a worker loop that only logs a failed analysis
AnalyzeDropError(w) ==
    /\ phase = "running"
    /\ wk[w].pc = "analyze"
    /\ \/ wk' = [wk EXCEPT ![w].pc = "save", ![w].ok = TRUE,
                            ![w].failed = FALSE]
       \/ wk' = [wk EXCEPT ![w] = WkIdle]
    /\ UNCHANGED dockVars
    /\ UNCHANGED toolVars
    /\ UNCHANGED <<taken, answered>>
    /\ UNCHANGED <<sent, scheduled, nstat, partial>>
    /\ UNCHANGED <<dirs, files, status, queue, channel, phase, scan, srv,
                   nsub, okRet, cleared, restarts>>

\* main.rs 243: analyze returns Ok(result) or Err; it writes only below
\* <root>/h/output/
Analyze(w) ==
    /\ phase = "running"
    /\ wk[w].pc = "analyze"
    /\ \E ok \in BOOLEAN : wk' = [wk EXCEPT ![w].pc = "save", ![w].ok = ok,
                                          ![w].failed = FALSE]
    /\ UNCHANGED dockVars
    /\ UNCHANGED toolVars
    /\ UNCHANGED <<taken, answered>>
    /\ UNCHANGED <<sent, scheduled, nstat, partial>>
    /\ UNCHANGED <<dirs, files, status, queue, channel, phase, scan, srv,
                   nsub, okRet, cleared, restarts>>

\* the marker save_result resp. save_error writes
Marker(ok) == IF ok THEN MARKER_RESULT ELSE MARKER_ERROR
Terminal(ok) == IF ok THEN "Completed" ELSE "Error"

\* a save that goes on to mark the packet although the marker was not
\* created
SaveWriteSwallow(w) ==
    /\ phase = "running"
    /\ wk[w].pc = "save"
    /\ \/ files' = [files EXCEPT ![wk[w].h] = @ \cup {Marker(wk[w].ok)}]
       \/ UNCHANGED files
    /\ wk' = [wk EXCEPT ![w].pc = "mark"]
    /\ UNCHANGED dockVars
    /\ UNCHANGED toolVars
    /\ UNCHANGED <<taken, answered>>
    /\ UNCHANGED <<sent, scheduled, nstat, partial>>
    /\ UNCHANGED <<dirs, status, queue, channel, phase, scan, srv, nsub,
                   okRet, cleared, restarts>>

\* a save that, when the marker cannot be written, gives the packet up:
\* it takes it out of the queue before it returns Err
SaveWriteGiveUp(w) ==
    /\ phase = "running"
    /\ wk[w].pc = "save"
    /\ \/ /\ files' = [files EXCEPT ![wk[w].h] = @ \cup {Marker(wk[w].ok)}]
          /\ wk' = [wk EXCEPT ![w].pc = "mark"]
          /\ UNCHANGED <<partial, queue>>
       \/ /\ files' = [files EXCEPT ![wk[w].h] = @ \cup {Marker(wk[w].ok)}]
          /\ wk' = [wk EXCEPT ![w] = [WkIdle EXCEPT !.failed = TRUE]]
          /\ partial' = IF wk[w].ok THEN partial \cup {wk[w].h} ELSE partial
          /\ queue' = SelectSeq(queue, LAMBDA g : g # wk[w].h)
       \/ /\ UNCHANGED <<files, partial>>
          /\ wk' = [wk EXCEPT ![w] = [WkIdle EXCEPT !.failed = TRUE]]
          /\ queue' = SelectSeq(queue, LAMBDA g : g # wk[w].h)
    /\ UNCHANGED dockVars
    /\ UNCHANGED toolVars
    /\ UNCHANGED <<taken, answered>>
    /\ UNCHANGED <<sent, scheduled, nstat>>
    /\ UNCHANGED <<dirs, status, channel, phase, scan, srv, nsub,
                   okRet, cleared, restarts>>

\* packet.rs 332-335, 354-357: create and write the marker file.  The
\* creation may fail, and the write may fail after the file was created;
\* either way the save returns Err, which the worker only logs.
SaveWrite(w) ==
    /\ phase = "running"
    /\ wk[w].pc = "save"
    /\ \/ /\ files' = [files EXCEPT ![wk[w].h] = @ \cup {Marker(wk[w].ok)}]
          /\ wk' = [wk EXCEPT ![w].pc = "mark"]
          /\ UNCHANGED partial
       \/ /\ files' = [files EXCEPT ![wk[w].h] = @ \cup {Marker(wk[w].ok)}]
          /\ wk' = [wk EXCEPT ![w] = [WkIdle EXCEPT !.failed = TRUE]]
          /\ partial' = IF wk[w].ok THEN partial \cup {wk[w].h} ELSE partial
       \/ /\ UNCHANGED <<files, partial>>
          /\ wk' = [wk EXCEPT ![w] = [WkIdle EXCEPT !.failed = TRUE]]
    /\ UNCHANGED dockVars
    /\ UNCHANGED toolVars
    /\ UNCHANGED <<taken, answered>>
    /\ UNCHANGED <<sent, scheduled, nstat>>
    /\ UNCHANGED <<dirs, status, queue, channel, phase, scan, srv, nsub,
                   okRet, cleared, restarts>>

\* packet.rs 337-340, 359-362: mark availability
SaveMark(w) ==
    /\ phase = "running"
    /\ wk[w].pc = "mark"
    /\ status' = [status EXCEPT ![wk[w].h] = Terminal(wk[w].ok)]
    /\ wk' = [wk EXCEPT ![w].pc = "dequeue"]
    /\ UNCHANGED dockVars
    /\ UNCHANGED toolVars
    /\ UNCHANGED <<taken, answered>>
    /\ UNCHANGED <<sent, scheduled, nstat, partial>>
    /\ UNCHANGED <<dirs, files, queue, channel, phase, scan, srv, nsub,
                   okRet, cleared, restarts>>

\* a save that drops the head of the queue instead of its own packet
SaveDequeueHead(w) ==
    /\ phase = "running"
    /\ wk[w].pc = "dequeue"
    /\ queue' = IF queue = <<>> THEN queue ELSE Tail(queue)
    /\ wk' = [wk EXCEPT ![w] = WkIdle]
    /\ UNCHANGED dockVars
    /\ UNCHANGED toolVars
    /\ UNCHANGED <<taken, answered>>
    /\ UNCHANGED <<sent, scheduled, nstat, partial>>
    /\ UNCHANGED <<dirs, files, status, channel, phase, scan, srv, nsub,
                   okRet, cleared, restarts>>

\* a save that cuts the queue off at its packet
SaveDequeueTruncate(w) ==
    /\ phase = "running"
    /\ wk[w].pc = "dequeue"
    /\ queue' = IF Count(queue, wk[w].h) = 0 THEN queue
                ELSE SubSeq(queue, 1,
                            Min({i \in 1..Len(queue) : queue[i] = wk[w].h}) - 1)
    /\ wk' = [wk EXCEPT ![w] = WkIdle]
    /\ UNCHANGED dockVars
    /\ UNCHANGED toolVars
    /\ UNCHANGED <<taken, answered>>
    /\ UNCHANGED <<sent, scheduled, nstat, partial>>
    /\ UNCHANGED <<dirs, files, status, channel, phase, scan, srv, nsub,
                   okRet, cleared, restarts>>

\* packet.rs 342-345, 364-367: remove it from queue
SaveDequeue(w) ==
    /\ phase = "running"
    /\ wk[w].pc = "dequeue"
    /\ queue' = Retain(queue, wk[w].h)
    /\ wk' = [wk EXCEPT ![w] = WkIdle]
    /\ UNCHANGED dockVars
    /\ UNCHANGED toolVars
    /\ UNCHANGED <<taken, answered>>
    /\ UNCHANGED <<sent, scheduled, nstat, partial>>
    /\ UNCHANGED <<dirs, files, status, channel, phase, scan, srv, nsub,
                   okRet, cleared, restarts>>

(***************************************************************************)
(* Restart: the process is killed (or aborts) at any point and is started  *)
(* again.  The filesystem stays; the registry, the channel and the         *)
(* threads are gone.  REGISTRY is constructed on its first use, which is   *)
(* main.rs 209, before any thread is spawned.                              *)
(***************************************************************************)
Crash ==
    /\ restarts < MaxRestarts
    /\ restarts' = restarts + 1
    /\ status' = [h \in Hashes |-> "None"]
    /\ queue' = <<>>
    /\ channel' = <<>>
    /\ srv' = [s \in Servers |-> SrvIdle]
    /\ wk' = [w \in Workers |-> WkIdle]
    /\ phase' = "new"
    /\ scan' = dirs                \* packet.rs 56: fs::read_dir(&root)
    /\ UNCHANGED dockVars
    /\ UNCHANGED toolVars
    /\ sent' = [h \in Hashes |-> 0]
    /\ scheduled' = {}
    /\ taken' = [h \in Hashes |-> 0]
    /\ UNCHANGED answered
    /\ UNCHANGED <<nstat, partial>>
    /\ UNCHANGED <<dirs, files, nsub, okRet, cleared>>

\* a Registry::new that keeps the error marker and records Error
RegistryNewItemKeepError(h) ==
    /\ phase = "new"
    /\ h \in scan
    /\ status' = [status EXCEPT ![h] =
                    IF MARKER_RESULT \in files[h] THEN "Completed"
                    ELSE IF MARKER_ERROR \in files[h] THEN "Error"
                    ELSE "Received"]
    /\ scan' = scan \ {h}
    /\ UNCHANGED dockVars
    /\ UNCHANGED toolVars
    /\ UNCHANGED <<taken, answered>>
    /\ UNCHANGED <<sent, scheduled, nstat, partial>>
    /\ UNCHANGED <<dirs, files, queue, channel, phase, srv, wk, nsub,
                   okRet, cleared, restarts>>

\* a Registry::new that records Received and leaves the error marker
RegistryNewItemLeaveMarker(h) ==
    /\ phase = "new"
    /\ h \in scan
    /\ status' = [status EXCEPT ![h] =
                    IF MARKER_RESULT \in files[h] THEN "Completed"
                    ELSE "Received"]
    /\ scan' = scan \ {h}
    /\ UNCHANGED dockVars
    /\ UNCHANGED toolVars
    /\ UNCHANGED <<taken, answered>>
    /\ UNCHANGED <<sent, scheduled, nstat, partial>>
    /\ UNCHANGED <<dirs, files, queue, channel, phase, srv, wk, nsub,
                   okRet, cleared, restarts>>

\* a Registry::new that removes the whole directory of a packet whose
\* analysis had failed, instead of the error marker only
RegistryNewItemPurge(h) ==
    /\ phase = "new"
    /\ h \in scan
    /\ IF MARKER_RESULT \in files[h]
       THEN /\ status' = [status EXCEPT ![h] = "Completed"]
            /\ UNCHANGED <<files, cleared, dirs>>
       ELSE IF MARKER_ERROR \in files[h]
       THEN /\ files' = [files EXCEPT ![h] = {}]
            /\ dirs' = dirs \ {h}
            /\ cleared' = cleared \cup {h}
            /\ UNCHANGED status
       ELSE /\ status' = [status EXCEPT ![h] = "Received"]
            /\ UNCHANGED <<files, cleared, dirs>>
    /\ scan' = scan \ {h}
    /\ UNCHANGED dockVars
    /\ UNCHANGED toolVars
    /\ UNCHANGED <<taken, answered>>
    /\ UNCHANGED <<sent, scheduled, nstat, partial>>
    /\ UNCHANGED <<queue, channel, phase, srv, wk, nsub, okRet,
                   restarts>>

\* packet.rs 56-82: one iteration of the scan, in directory-listing order
RegistryNewItem(h) ==
    /\ phase = "new"
    /\ h \in scan
    /\ IF MARKER_RESULT \in files[h]
       THEN /\ status' = [status EXCEPT ![h] = "Completed"]
            /\ UNCHANGED <<files, cleared>>
       ELSE /\ files' = [files EXCEPT ![h] = @ \ {MARKER_ERROR}]
            /\ cleared' = IF MARKER_ERROR \in files[h]
                          THEN cleared \cup {h} ELSE cleared
            /\ status' = [status EXCEPT ![h] = "Received"]
    /\ scan' = scan \ {h}
    /\ UNCHANGED dockVars
    /\ UNCHANGED toolVars
    /\ UNCHANGED <<taken, answered>>
    /\ UNCHANGED <<sent, scheduled, nstat, partial>>
    /\ UNCHANGED <<dirs, queue, channel, phase, srv, wk, nsub, okRet,
                   restarts>>

\* packet.rs 84-88 and main.rs 209: the registry is constructed with an
\* empty queue and main takes its snapshot
RegistryNewDone ==
    /\ phase = "new"
    /\ scan = {}
    /\ phase' = "startup"
    /\ queue' = <<>>
    /\ scan' = {h \in Hashes : status[h] # "None"}
    /\ UNCHANGED dockVars
    /\ UNCHANGED toolVars
    /\ UNCHANGED <<taken, answered>>
    /\ UNCHANGED <<sent, scheduled, nstat, partial>>
    /\ UNCHANGED <<dirs, files, status, channel, srv, wk, nsub, okRet,
                   cleared, restarts>>

\* a recovery loop that queues every packet of the snapshot
StartupQueueAll ==
    /\ phase = "startup"
    /\ scan # {}
    /\ LET h == Min(scan) IN
       /\ queue' = Append(queue, h)
       /\ status' = [status EXCEPT ![h] = "Received"]
       /\ channel' = Append(channel, h)
       /\ sent' = [sent EXCEPT ![h] = @ + 1]
       /\ scan' = scan \ {h}
    /\ UNCHANGED dockVars
    /\ UNCHANGED toolVars
    /\ UNCHANGED <<taken, answered>>
    /\ UNCHANGED <<scheduled, nstat, partial>>
    /\ UNCHANGED <<dirs, files, phase, srv, wk, nsub, okRet, cleared,
                   restarts>>

\* main.rs 209-216: one iteration over the snapshot, in key order; main is
\* the only thread, so queue and send are not interleaved with anything
StartupQueue ==
    /\ phase = "startup"
    /\ scan # {}
    /\ LET h == Min(scan) IN
       /\ IF status[h] = "Received"
          THEN /\ queue' = Append(queue, h)
               /\ status' = [status EXCEPT ![h] = "Received"]
               /\ channel' = Append(channel, h)
               /\ sent' = [sent EXCEPT ![h] = @ + 1]
          ELSE UNCHANGED <<queue, status, channel, sent>>
       /\ scan' = scan \ {h}
    /\ UNCHANGED dockVars
    /\ UNCHANGED toolVars
    /\ UNCHANGED <<taken, answered>>
    /\ UNCHANGED <<scheduled, nstat, partial>>
    /\ UNCHANGED <<dirs, files, phase, srv, wk, nsub, okRet, cleared,
                   restarts>>

\* main.rs 219-315: the workers and the intake threads are spawned
StartupDone ==
    /\ phase = "startup"
    /\ scan = {}
    /\ phase' = "running"
    /\ UNCHANGED dockVars
    /\ UNCHANGED toolVars
    /\ UNCHANGED <<taken, answered>>
    /\ UNCHANGED <<sent, scheduled, nstat, partial>>
    /\ UNCHANGED <<dirs, files, status, queue, channel, scan, srv, wk,
                   nsub, okRet, cleared, restarts>>

IntakeStep(s) ==
    \/ SubmitMalformed(s)
    \/ \E h \in Hashes : RegisterLock(s, h)
    \/ CopyEntry(s)
    \/ WriteInterface(s)
    \/ CreateOutput(s)
    \/ QueuePush(s)
    \/ QueueInsert(s)
    \/ ChannelSend(s)
    \/ CloseScratch(s)
    \/ Respond(s)

WorkerStep(w) ==
    \/ Recv(w)
    \/ Analyze(w)
    \/ SaveWrite(w)
    \/ SaveMark(w)
    \/ SaveDequeue(w)

MainStep ==
    \/ \E h \in Hashes : RegistryNewItem(h)
    \/ RegistryNewDone
    \/ StartupQueue
    \/ StartupDone

RegNext ==
    \/ \E s \in Servers : IntakeStep(s)
    \/ \E w \in Workers : WorkerStep(w)
    \/ MainStep
    \/ Crash

Next == RegNext
Spec == Init /\ [][Next]_vars

(***************************************************************************)
(* handle_status (main.rs 106-113) with Registry::load_packet_status       *)
(* (packet.rs 374-417), run by the intake threads, one step per lock.      *)
(* Reads of the filesystem fail only through what they find: a missing     *)
(* file, or a result.json that is no complete JSON document.               *)
(***************************************************************************)
\* packet.rs 378-383: the status of the packet is read under the packets
\* lock; an unknown packet ends the call with Ok(None)
StatusRead(s, h) ==
    /\ phase = "running"
    /\ srv[s].pc = "idle"
    /\ nstat < MaxStatus
    /\ nstat' = nstat + 1
    /\ srv' = [srv EXCEPT ![s] =
                 [SrvIdle EXCEPT
                    !.h = h,
                    !.seen = status[h],
                    !.pc = CASE status[h] = "None" -> "reply"
                             [] status[h] = "Received" -> "stqueue"
                             [] OTHER -> "stfile",
                    !.resp = IF status[h] = "None" THEN "nosuch"
                             ELSE "none"]]
    /\ UNCHANGED dockVars
    /\ UNCHANGED toolVars
    /\ UNCHANGED <<taken, answered>>
    /\ UNCHANGED <<dirs, files, status, queue, channel, phase, scan, wk,
                   nsub, okRet, cleared, restarts, sent, scheduled, partial>>

\* Vec::iter().position(|p| p == &packet): the 0-based index of the first
\* occurrence
Position(q, h) == Min({i \in 1..Len(q) : q[i] = h}) - 1

\* a load_packet_status that counts positions from 1
StatusQueueOneBased(s) ==
    /\ phase = "running"
    /\ srv[s].pc = "stqueue"
    /\ srv' = IF Count(queue, srv[s].h) = 0
              THEN [srv EXCEPT ![s].pc = "reply", ![s].resp = "500"]
              ELSE [srv EXCEPT ![s].pc = "reply", ![s].resp = "pos",
                               ![s].pos = Position(queue, srv[s].h) + 1]
    /\ UNCHANGED dockVars
    /\ UNCHANGED toolVars
    /\ UNCHANGED <<taken, answered>>
    /\ UNCHANGED <<dirs, files, status, queue, channel, phase, scan, wk,
                   nsub, okRet, cleared, restarts, sent, scheduled, nstat,
                   partial>>

\* packet.rs 384-394: the position is read under the queue lock
StatusQueue(s) ==
    /\ phase = "running"
    /\ srv[s].pc = "stqueue"
    /\ srv' = IF Count(queue, srv[s].h) = 0
              THEN [srv EXCEPT ![s].pc = "reply", ![s].resp = "500"]
              ELSE [srv EXCEPT ![s].pc = "reply", ![s].resp = "pos",
                               ![s].pos = Position(queue, srv[s].h)]
    /\ UNCHANGED dockVars
    /\ UNCHANGED toolVars
    /\ UNCHANGED <<taken, answered>>
    /\ UNCHANGED <<dirs, files, status, queue, channel, phase, scan, wk,
                   nsub, okRet, cleared, restarts, sent, scheduled, nstat,
                   partial>>

\* packet.rs 395-413: the marker file is looked up and read; result.json
\* is parsed (402) and serialized again (403)
StatusFile(s) ==
    /\ phase = "running"
    /\ srv[s].pc = "stfile"
    /\ srv' = [srv EXCEPT
                 ![s].pc = "reply",
                 ![s].resp =
                    IF srv[s].seen = "Completed"
                    THEN IF MARKER_RESULT \notin files[srv[s].h] THEN "500"
                         ELSE IF srv[s].h \in partial THEN "500"
                         ELSE "result"
                    ELSE IF MARKER_ERROR \notin files[srv[s].h] THEN "500"
                         ELSE "errtext"]
    /\ UNCHANGED dockVars
    /\ UNCHANGED toolVars
    /\ UNCHANGED <<taken, answered>>
    /\ UNCHANGED <<dirs, files, status, queue, channel, phase, scan, wk,
                   nsub, okRet, cleared, restarts, sent, scheduled, nstat,
                   partial>>

StatusStep(s) ==
    \/ \E h \in Hashes : StatusRead(s, h)
    \/ StatusQueue(s)
    \/ StatusFile(s)

\* one process run (no restart) in which clients also ask for the status
StatusNext ==
    \/ \E s \in Servers : IntakeStep(s)
    \/ \E w \in Workers : WorkerStep(w)
    \/ StartupDone
    \/ \E s \in Servers : StatusStep(s)

SpecStatus == Init /\ [][StatusNext]_vars

(***************************************************************************)
(* A process started on a registry root that earlier runs have filled:     *)
(* some of the packets of Stored are installed, some of these have a       *)
(* result.json, which a save cut short may have left incomplete.           *)
(* Registry::new has classified them and removed the error markers, main   *)
(* has queued and sent the Received ones in key order and spawned the      *)
(* threads.  From there the workers run and clients ask for the status.    *)
(***************************************************************************)
Stored == 1..NumStored

\* packet.rs 63-81: the status Registry::new gives a packet directory
NewStatus(entries) ==
    IF MARKER_RESULT \in entries THEN "Completed" ELSE "Received"

\* main.rs 209-216: the Received packets of the snapshot in key order
RECURSIVE InKeyOrder(_)
InKeyOrder(S) ==
    IF S = {} THEN <<>>
    ELSE <<Min(S)>> \o InKeyOrder(S \ {Min(S)})

RecoverInit ==
    /\ \E on \in SUBSET Stored : \E done \in SUBSET on :
       \E cut \in SUBSET done :
          /\ dirs = on
          /\ files = [h \in Stored |->
                        IF h \notin on THEN {}
                        ELSE IF h \in done
                             THEN PacketEntries \cup {MARKER_RESULT}
                             ELSE PacketEntries]
          /\ partial = cut
    /\ status = [h \in Stored |->
                   IF h \in dirs THEN NewStatus(files[h]) ELSE "None"]
    /\ queue = InKeyOrder({h \in Stored : status[h] = "Received"})
    /\ channel = queue
    /\ sent = [h \in Stored |-> IF status[h] = "Received" THEN 1 ELSE 0]
    /\ taken = [h \in Stored |-> 0]
    /\ answered = {}
    /\ phase = "running"
    /\ scan = {}
    /\ srv = [s \in Servers |-> SrvIdle]
    /\ wk = [w \in Workers |-> WkIdle]
    /\ nsub = 0
    /\ okRet = {}
    /\ cleared = {}
    /\ restarts = 0
    /\ scheduled = {}
    /\ nstat = 0
    /\ DockInit
    /\ ToolInit

RecoverNext ==
    \/ \E w \in Workers : WorkerStep(w)
    \/ \E s \in Servers : StatusStep(s)
    \/ \E s \in Servers : Respond(s)

SpecRecover == RecoverInit /\ [][RecoverNext]_vars

(***************************************************************************)
(* The container driver (util_docker.rs).  One driver instance runs        *)
(* commands through Dock::sandbox and Dock::commit; every container it     *)
(* creates carries the name "<tag>-ephemeral-<driver name>".  Each engine  *)
(* request is a step that may answer with an error.  The container and     *)
(* the clock move on their own.                                            *)
(***************************************************************************)
Existing == {id \in ContainerIds : cont[id] # "none"}

\* _run returns; the log stream is dropped with it
Return(r) ==
    /\ drv' = [drv EXCEPT !.pc = "done", !.ret = r]
    /\ frame' = "none"

\* util_docker.rs 564: Some(timeout.unwrap_or(DEFAULT_SANDBOX_TIMEOUT));
\* t = 0 stands for None
\* _run returns after del_container(id), whose outcome d is kept
ReturnDel(r, d) ==
    /\ drv' = [drv EXCEPT !.pc = "done", !.ret = r, !.del = d]
    /\ frame' = "none"

SandboxTimeout(t) == IF t = 0 THEN DEFAULT_SANDBOX_TIMEOUT ELSE t

\* util_docker.rs 550-568: sandbox -> invoke -> _run(tag, None, ...)
CallSandbox(t) ==
    /\ drv.pc \in {"idle", "done"}
    /\ calls < MaxCalls
    /\ calls' = calls + 1
    /\ drv' = [DrvIdle EXCEPT !.pc = "check", !.timed = TRUE,
                              !.timeout = SandboxTimeout(t)]
    /\ UNCHANGED <<cont, image, frame, elapsed>>
    /\ UNCHANGED regVars
    /\ UNCHANGED toolVars

\* util_docker.rs 491-527: commit; an image already tagged new_tag is
\* reused, or deleted first when force is set; then
\* _run(tag, Some(name), ..., timeout = None)
CallCommit(force) ==
    /\ drv.pc \in {"idle", "done"}
    /\ calls < MaxCalls
    /\ calls' = calls + 1
    /\ IF image /\ ~force
       THEN /\ drv' = [DrvIdle EXCEPT !.pc = "done", !.commit = TRUE,
                                      !.ret = "Reused"]
            /\ UNCHANGED image
       ELSE \/ /\ image' = FALSE          \* get_image, del_image succeeded
               /\ drv' = [DrvIdle EXCEPT !.pc = "check", !.commit = TRUE]
            \/ /\ UNCHANGED image         \* get_image or del_image failed
               /\ drv' = [DrvIdle EXCEPT !.pc = "done", !.commit = TRUE,
                                         !.ret = "Err"]
    /\ UNCHANGED <<cont, frame, elapsed>>
    /\ UNCHANGED regVars
    /\ UNCHANGED toolVars

\* a _run that removes a container it finds under its name and goes on
RunCheckReplace ==
    /\ drv.pc = "check"
    /\ \/ /\ drv' = [drv EXCEPT !.pc = "image"]
          /\ cont' = [id \in ContainerIds |-> "none"]
          /\ UNCHANGED frame
       \/ Return("Err") /\ UNCHANGED cont
    /\ UNCHANGED <<image, elapsed, calls>>
    /\ UNCHANGED regVars
    /\ UNCHANGED toolVars

\* util_docker.rs 375-383: get_container(ephemeral_name); the call bails
\* when the listing fails or a container of that name exists
RunCheck ==
    /\ drv.pc = "check"
    /\ \/ /\ Existing = {}
          /\ drv' = [drv EXCEPT !.pc = "image"]
          /\ UNCHANGED frame
       \/ /\ Existing # {}
          /\ Return("Err")
       \/ Return("Err")
    /\ UNCHANGED <<cont, image, elapsed, calls>>
    /\ UNCHANGED regVars
    /\ UNCHANGED toolVars

\* util_docker.rs 385-391: get_image(tag); bails when it fails or finds
\* no image
RunImage ==
    /\ drv.pc = "image"
    /\ \/ drv' = [drv EXCEPT !.pc = "create"] /\ UNCHANGED frame
       \/ Return("Err")
    /\ UNCHANGED <<cont, image, elapsed, calls>>
    /\ UNCHANGED regVars
    /\ UNCHANGED toolVars

\* util_docker.rs 424-433: create_container; the request fails, or the
\* container is created, with or without warnings
RunCreate ==
    /\ drv.pc = "create"
    /\ \/ Return("Err") /\ UNCHANGED cont
       \/ \E warn \in BOOLEAN :
             /\ cont' = [cont EXCEPT ![calls] = "created"]
             /\ drv' = [drv EXCEPT !.mine = calls,
                           !.pc = IF warn THEN "abort" ELSE "start"]
             /\ UNCHANGED frame
    /\ UNCHANGED <<image, elapsed, calls>>
    /\ UNCHANGED regVars
    /\ UNCHANGED toolVars

\* util_docker.rs 436-443: start_container, then the start time is taken
RunStart ==
    /\ drv.pc = "start"
    /\ \/ /\ cont' = [cont EXCEPT ![drv.mine] = "running"]
          /\ elapsed' = 0
          /\ drv' = [drv EXCEPT !.pc = "follow"]
       \/ /\ drv' = [drv EXCEPT !.pc = "abort"]
          /\ UNCHANGED <<cont, elapsed>>
    /\ UNCHANGED <<image, frame, calls>>
    /\ UNCHANGED regVars
    /\ UNCHANGED toolVars

\* util_docker.rs 306-315: the timeout test made after a frame
TimedOut == drv.timed /\ elapsed > drv.timeout

\* util_docker.rs 271-316: one iteration of the log-follow loop on the
\* frame the stream yields
FollowFrame ==
    /\ drv.pc = "follow"
    /\ frame # "none"
    /\ frame' = "none"
    /\ drv' = CASE frame = "bytes" -> drv             \* 275-277: continue
                [] frame \in {"ioerr", "stdin"} -> [drv EXCEPT !.pc = "abort"]
                [] OTHER -> IF TimedOut
                            THEN [drv EXCEPT !.pc = "cleanup",
                                             !.status = "Timeout"]
                            ELSE drv
    /\ UNCHANGED <<cont, image, elapsed, calls>>
    /\ UNCHANGED regVars
    /\ UNCHANGED toolVars

\* util_docker.rs 271: the stream ends once the container has exited and
\* its output is drained
FollowEnd ==
    /\ drv.pc = "follow"
    /\ frame = "none"
    /\ cont[drv.mine] = "exited"
    /\ drv' = [drv EXCEPT !.pc = "wait", !.ended = TRUE]
    /\ UNCHANGED <<cont, image, frame, elapsed, calls>>
    /\ UNCHANGED regVars
    /\ UNCHANGED toolVars

\* util_docker.rs 321-348: the wait stream yields an exit code, or an
\* error; a second code is a conflict
WaitFrame ==
    /\ drv.pc = "wait"
    /\ \/ \E c \in {0, 1} :
             drv' = IF drv.codes = 0
                    THEN [drv EXCEPT !.codes = 1, !.code = c]
                    ELSE [drv EXCEPT !.pc = "abort", !.codes = 2]
       \/ drv' = [drv EXCEPT !.pc = "abort"]
    /\ UNCHANGED <<cont, image, frame, elapsed, calls>>
    /\ UNCHANGED regVars
    /\ UNCHANGED toolVars

\* a wait that takes a missing exit code for success
WaitEndLenient ==
    /\ drv.pc = "wait"
    /\ drv' = [drv EXCEPT !.pc = "cleanup",
                  !.status = IF drv.code = 0 THEN "Success" ELSE "Failure"]
    /\ UNCHANGED <<cont, image, frame, elapsed, calls>>
    /\ UNCHANGED regVars
    /\ UNCHANGED toolVars

\* util_docker.rs 350-358: the wait stream ends
WaitEnd ==
    /\ drv.pc = "wait"
    /\ drv' = IF drv.codes = 0 THEN [drv EXCEPT !.pc = "abort"]
              ELSE [drv EXCEPT !.pc = "cleanup",
                       !.status = IF drv.code = 0 THEN "Success"
                                  ELSE "Failure"]
    /\ UNCHANGED <<cont, image, frame, elapsed, calls>>
    /\ UNCHANGED regVars
    /\ UNCHANGED toolVars

\* util_docker.rs 430-431, 439-440, 450-451, 470-471, 476-477:
\* del_container(id)?; bail!(..): the call fails whether or not the
\* removal succeeded
RunAbort ==
    /\ drv.pc = "abort"
    /\ \/ cont' = [cont EXCEPT ![drv.mine] = "none"] /\ ReturnDel("Err", "ok")
       \/ UNCHANGED cont /\ ReturnDel("Err", "failed")
    /\ UNCHANGED <<image, elapsed, calls>>
    /\ UNCHANGED regVars
    /\ UNCHANGED toolVars

\* a _run that commits the container whatever the exit status
RunCommitAlways ==
    /\ drv.pc = "cleanup"
    /\ IF ~drv.commit
       THEN drv' = [drv EXCEPT !.pc = "remove"] /\ UNCHANGED image
       ELSE \/ image' = TRUE /\ drv' = [drv EXCEPT !.pc = "remove"]
            \/ UNCHANGED image /\ drv' = [drv EXCEPT !.pc = "abort"]
    /\ UNCHANGED <<cont, frame, elapsed, calls>>
    /\ UNCHANGED regVars
    /\ UNCHANGED toolVars

\* util_docker.rs 455-480: with a commit target, commit the container
\* after Success and abort otherwise
RunCommit ==
    /\ drv.pc = "cleanup"
    /\ IF ~drv.commit
       THEN drv' = [drv EXCEPT !.pc = "remove"] /\ UNCHANGED image
       ELSE IF drv.status = "Success"
            THEN \/ image' = TRUE /\ drv' = [drv EXCEPT !.pc = "remove"]
                 \/ UNCHANGED image /\ drv' = [drv EXCEPT !.pc = "abort"]
            ELSE UNCHANGED image /\ drv' = [drv EXCEPT !.pc = "abort"]
    /\ UNCHANGED <<cont, frame, elapsed, calls>>
    /\ UNCHANGED regVars
    /\ UNCHANGED toolVars

\* a _run that returns Timeout without removing the container
RunRemoveUnlessTimeout ==
    /\ drv.pc = "remove"
    /\ \/ /\ cont' = IF drv.status = "Timeout" THEN cont
                     ELSE [cont EXCEPT ![drv.mine] = "none"]
          /\ Return(drv.status)
       \/ UNCHANGED cont /\ Return("Err")
    /\ UNCHANGED <<image, elapsed, calls>>
    /\ UNCHANGED regVars
    /\ UNCHANGED toolVars

\* util_docker.rs 482-486: del_container(&container_id)?; Ok(exit_status)
RunRemove ==
    /\ drv.pc = "remove"
    /\ \/ /\ cont' = [cont EXCEPT ![drv.mine] = "none"]
          /\ ReturnDel(drv.status, "ok")
       \/ UNCHANGED cont /\ ReturnDel("Err", "failed")
    /\ UNCHANGED <<image, elapsed, calls>>
    /\ UNCHANGED regVars
    /\ UNCHANGED toolVars

\* the container writes output, which the followed stream delivers as a
\* frame (LogOutput or an error of the stream)
ContainerEmit ==
    /\ drv.pc = "follow"
    /\ cont[drv.mine] = "running"
    /\ frame = "none"
    /\ frame' \in {"out", "stdin", "bytes", "ioerr"}
    /\ UNCHANGED <<cont, image, drv, elapsed, calls>>
    /\ UNCHANGED regVars
    /\ UNCHANGED toolVars

\* the command ends
ContainerExit ==
    /\ \E id \in ContainerIds :
          /\ cont[id] = "running"
          /\ cont' = [cont EXCEPT ![id] = "exited"]
    /\ UNCHANGED <<image, drv, frame, elapsed, calls>>
    /\ UNCHANGED regVars
    /\ UNCHANGED toolVars

\* wall-clock time passes while the driver follows the log
Tick ==
    /\ drv.pc = "follow"
    /\ elapsed < MaxElapsed
    /\ elapsed' = elapsed + TickSecs
    /\ UNCHANGED <<cont, image, drv, frame, calls>>
    /\ UNCHANGED regVars
    /\ UNCHANGED toolVars

\* the process is killed in the middle of a call and started again: the
\* driver is gone, the engine keeps its containers
DockCrash ==
    /\ drv.pc \notin {"idle", "done"}
    /\ drv' = DrvIdle
    /\ frame' = "none"
    /\ UNCHANGED <<cont, image, elapsed, calls>>
    /\ UNCHANGED regVars
    /\ UNCHANGED toolVars

DriverStep ==
    \/ RunCheck
    \/ RunImage
    \/ RunCreate
    \/ RunStart
    \/ FollowFrame
    \/ FollowEnd
    \/ WaitFrame
    \/ WaitEnd
    \/ RunAbort
    \/ RunCommit
    \/ RunRemove

DockNext ==
    \/ \E t \in {0, TIMEOUT_TEST_CASE} : CallSandbox(t)
    \/ \E force \in BOOLEAN : CallCommit(force)
    \/ DriverStep
    \/ ContainerEmit
    \/ ContainerExit
    \/ Tick
    \/ DockCrash

SpecDock == Init /\ [][DockNext]_vars

(***************************************************************************)
(* Claims about the registry, checked under Spec.                          *)
(***************************************************************************)
OkRetOf(h) == {r \in okRet : r[1] = h}

\* C1: among the register calls for the same hash that return Ok, at most
\* one returns existed = false, and every call that took the root lock
\* after another successful call returns existed = true.
C1_AtMostOneNew ==
    \A h \in Hashes :
        /\ Cardinality({r \in OkRetOf(h) : ~r[3]}) <= 1
        /\ \A r1, r2 \in OkRetOf(h) : r1[2] < r2[2] => r2[3]

\* two submissions of the same content both returned Ok: the first one
\* installed the packet, the later one found it
C1_Witness ==
    \E h \in Hashes : \E r1, r2 \in OkRetOf(h) :
        r1[2] < r2[2] /\ ~r1[3] /\ r2[3]

ReceivedQueuedOnce ==
    \A h \in Hashes : status[h] = "Received" => Count(queue, h) = 1

\* C2 (as stated): from the construction of the registry onward, every
\* Received packet appears exactly once in the queue.
C2_ReceivedQueuedOnce == RegistryExists => ReceivedQueuedOnce

\* C2 (amended): once main's recovery loop has finished and the threads
\* run, every Received packet appears exactly once in the queue.
C2_ReceivedQueuedOnceRunning == phase = "running" => ReceivedQueuedOnce

\* a packet waits in the queue while a worker removes another one
C2_Witness ==
    /\ phase = "running"
    /\ \E h \in Hashes, w \in Workers :
          /\ status[h] = "Received"
          /\ Count(queue, h) = 1
          /\ wk[w].pc = "dequeue"
          /\ wk[w].h # h

\* C3: result.json and error never exist together in a packet directory,
\* whatever the submissions, analyses, saves and restarts.
C3_MarkersExclusive ==
    \A h \in Hashes : ~({MARKER_RESULT, MARKER_ERROR} \subseteq files[h])

\* a packet that failed in one run, was cleared on restart and analysed
\* again has its result saved
C3_Witness ==
    \E h \in cleared : MARKER_RESULT \in files[h] /\ status[h] = "Completed"

\* C4 (as stated): status(H) = Completed exactly when result.json exists.
C4_CompletedIffResult ==
    RegistryExists =>
        \A h \in Hashes :
            status[h] = "Completed" <=> MARKER_RESULT \in files[h]

\* C4 (amended): status(H) = Completed only when result.json exists, and a
\* packet whose result.json exists is Completed or still Received (its
\* save_result has not yet marked it, or failed after creating the file).
C4_CompletedImpliesResult ==
    RegistryExists =>
        \A h \in Hashes :
            /\ status[h] = "Completed" => MARKER_RESULT \in files[h]
            /\ MARKER_RESULT \in files[h] =>
                   status[h] \in {"Completed", "Received"}

\* save_result has written the file and marked the packet
C4_Witness ==
    \E w \in Workers :
        /\ wk[w].pc = "dequeue"
        /\ wk[w].ok
        /\ status[wk[w].h] = "Completed"
        /\ MARKER_RESULT \in files[wk[w].h]

\* C5: H is a key of the status map exactly when <root>/H/ exists.
C5_InMemoryIffOnDisk ==
    RegistryExists =>
        \A h \in Hashes : status[h] # "None" <=> h \in dirs

\* C6: <root>/H/ either does not exist or holds main.c, interface.h,
\* input/, crash/ and output/.
C6_InstallAtomic ==
    \A h \in dirs : PacketEntries \subseteq files[h]

\* C10: when Registry::new has returned, every packet directory with
\* result.json is Completed, every other one is Received and has no error
\* marker, and no packet is in status Error.
C10_NewClassifies ==
    phase = "startup" =>
        \A h \in Hashes :
            /\ status[h] # "Error"
            /\ h \notin dirs => status[h] = "None"
            /\ h \in dirs /\ MARKER_RESULT \in files[h] =>
                   status[h] = "Completed"
            /\ h \in dirs /\ MARKER_RESULT \notin files[h] =>
                   status[h] = "Received" /\ MARKER_ERROR \notin files[h]

\* the restart found one packet completed and one with an error marker
C10_Witness ==
    /\ phase = "startup"
    /\ \E h \in cleared : status[h] = "Received"
    /\ \E h \in Hashes : status[h] = "Completed"

\* C11: when main's startup loop has finished, the packets in the queue
\* and in the channel are exactly the packet directories without
\* result.json, each queued once and sent once; a packet with result.json
\* is neither queued nor sent.
C11_StartupQueuesPending ==
    phase = "startup" /\ scan = {} =>
        \A h \in Hashes :
            IF h \in dirs /\ MARKER_RESULT \notin files[h]
            THEN Count(queue, h) = 1 /\ Count(channel, h) = 1 /\ sent[h] = 1
            ELSE Count(queue, h) = 0 /\ Count(channel, h) = 0 /\ sent[h] = 0

\* a restart found one packet with result.json and one without, and the
\* loop queued and sent only the latter
C11_Witness ==
    /\ phase = "startup"
    /\ scan = {}
    /\ \E h \in dirs : MARKER_RESULT \in files[h] /\ sent[h] = 0
    /\ \E h \in dirs : MARKER_RESULT \notin files[h] /\ sent[h] = 1
                          /\ Count(queue, h) = 1

\* C12: every queued packet eventually reaches Completed or Error and
\* leaves the queue.  A finite run refutes it by reaching a state of the
\* running process where a queued packet without terminal status is no
\* longer on its way to a worker: it is not in the channel, no worker
\* holds it and no intake thread is about to send it.
C12_QueuedIsServed ==
    phase = "running" =>
        \A h \in Hashes :
            Count(queue, h) > 0 /\ status[h] \notin {"Completed", "Error"} =>
                \/ Count(channel, h) > 0
                \/ \E w \in Workers : wk[w].pc # "idle" /\ wk[w].h = h
                \/ \E s \in Servers :
                       srv[s].pc \in {"insert", "send"} /\ srv[s].h = h

\* C13 (as stated): a submit of an installed packet is answered 200 "has
\* been submitted before".
C13_DuplicateAnswered200 ==
    \A s \in Servers :
        srv[s].pc = "reply" /\ srv[s].existed => srv[s].resp = "dup"

\* a step of intake thread s while it handles a submit that register found
\* installed (a restart is not a step of the thread)
DuplicateStep(s) ==
    /\ restarts' = restarts
    /\ srv'[s] # srv[s]
    /\ srv[s].existed \/ srv'[s].existed

\* C13 (amended): a submit of an installed packet is answered 200 "has
\* been submitted before" with the same hash, or 500 when the scratch
\* directory cannot be removed; either way the handler makes no queue call
\* and no channel send and leaves the queue, the status map and the channel
\* unchanged, whatever the status of the packet.
C13_DuplicateNoEffect ==
    [][\A s \in Servers :
          /\ (srv[s].pc = "idle" /\ nsub' # nsub /\ srv'[s].h \in dirs)
                 => srv'[s].existed
          /\ DuplicateStep(s) =>
                 /\ UNCHANGED <<queue, status, channel, sent>>
                 /\ srv'[s].pc \in {"respond", "reply", "idle"}
                 /\ srv'[s].pc = "respond" => srv'[s].resp = "dup"
                 /\ srv'[s].pc = "reply" =>
                        /\ srv'[s].resp \in {"dup", "500"}
                        /\ srv'[s].h = srv[s].h
                        /\ srv[s].pc = "respond"]_vars

\* a duplicate of a packet that is already Completed is about to be
\* answered "has been submitted before"
C13_Witness ==
    \E s \in Servers :
        /\ srv[s].pc = "reply"
        /\ srv[s].existed
        /\ srv[s].resp = "dup"
        /\ status[srv[s].h] = "Completed"

IsTerminal(st) == st \in {"Completed", "Error"}

QueuedBefore(g, h) ==
    \E i, j \in 1..Len(queue) : i < j /\ queue[i] = g /\ queue[j] = h

\* the ticket (order at the root lock) of the register call that
\* installed h
NewTicket(h) == (CHOOSE r \in OkRetOf(h) : ~r[3])[2]

\* C17: in a process run without restart, the packets are received from
\* the channel in the order in which they appear in the queue: a packet
\* in the channel is not queued before one that is ahead of it in the
\* channel or that a worker has already received; and the order of the
\* queue is the order in which the register calls took the root lock.
C17_FifoOrder ==
    phase = "running" /\ restarts = 0 =>
        /\ \A i, j \in 1..Len(channel) :
               i < j => ~QueuedBefore(channel[j], channel[i])
        /\ \A j \in 1..Len(channel) : \A w \in Workers :
               wk[w].pc # "idle" => ~QueuedBefore(channel[j], wk[w].h)
        /\ \A i, j \in 1..Len(queue) :
               i < j => NewTicket(queue[i]) < NewTicket(queue[j])

\* C18: each packet is sent on the channel at most once per process run,
\* and the workers hold only packets received from the channel, so at
\* most one worker ever analyses a packet in a run.
C18_SentAtMostOnce ==
    \A h \in Hashes :
        /\ sent[h] <= 1
        /\ Count(channel, h)
              + Cardinality({w \in Workers : wk[w].pc # "idle" /\ wk[w].h = h})
              <= sent[h]

\* after a restart a packet was sent by the recovery loop, a worker holds
\* it, and a duplicate submission of it has been found installed
C18_Witness ==
    \E h \in Hashes :
        /\ restarts = 1
        /\ sent[h] = 1
        /\ \E w \in Workers : wk[w].pc # "idle" /\ wk[w].h = h
        /\ \E s \in Servers : srv[s].existed /\ srv[s].h = h

(***************************************************************************)
(* Claims about status requests (SpecStatus, SpecRecover) and about the    *)
(* saves (SpecRecover).                                                    *)
(***************************************************************************)
\* no worker has saved a marker for h
NoMarker(h) == files[h] \cap {MARKER_RESULT, MARKER_ERROR} = {}

\* C14 (as stated): a status request for a packet H that was answered "is
\* scheduled for analysis", served before any worker saves a marker for H,
\* returns "queued at position p" with p the number of packets queued
\* before H that have not reached a terminal status.
C14_PositionCountsPending ==
    [][\A s \in Servers :
          LET h == srv'[s].h IN
          /\ (srv[s].pc = "idle" /\ srv'[s].pc # "idle" /\ nstat' # nstat
                  /\ h \in scheduled /\ NoMarker(h))
                 => srv'[s].pc = "stqueue"
          /\ (srv[s].pc = "stqueue" /\ srv'[s].pc = "reply"
                  /\ h \in scheduled /\ NoMarker(h))
                 => /\ srv'[s].resp = "pos"
                    /\ srv'[s].pos =
                          Cardinality({g \in Hashes :
                              QueuedBefore(g, h) /\ ~IsTerminal(status[g])})
      ]_vars

\* C14 (amended): ... returns "queued at position p" with p the number of
\* packets ahead of H in the queue: the packets queued before H that are
\* not terminal yet or whose save has marked them and not yet removed them
\* from the queue.
C14_PositionCountsQueued ==
    [][\A s \in Servers :
          LET h == srv'[s].h IN
          /\ (srv[s].pc = "idle" /\ srv'[s].pc # "idle" /\ nstat' # nstat
                  /\ h \in scheduled /\ NoMarker(h))
                 => srv'[s].pc = "stqueue"
          /\ (srv[s].pc = "stqueue" /\ srv'[s].pc = "reply"
                  /\ h \in scheduled /\ NoMarker(h))
                 => /\ srv'[s].resp = "pos"
                    /\ srv'[s].pos =
                          Cardinality({g \in Hashes :
                              /\ QueuedBefore(g, h)
                              /\ \/ ~IsTerminal(status[g])
                                 \/ \E w \in Workers :
                                       wk[w].pc = "dequeue" /\ wk[w].h = g})
      ]_vars

\* a scheduled packet that no worker has saved yet is reported at
\* position 1, behind another packet
C14_Witness ==
    \E s \in Servers :
        /\ srv[s].pc = "reply"
        /\ srv[s].resp = "pos"
        /\ srv[s].pos = 1
        /\ srv[s].h \in scheduled
        /\ NoMarker(srv[s].h)

\* C15: load_packet_status returns None exactly when the hash is no key of
\* the status map; for a Received packet "queued at position p" with p the
\* 0-based index in the queue, and an error when the packet is not in the
\* queue; for Completed the content of result.json, and an error when the
\* file is missing; for Error the text of the error file.
C15_LoadStatus ==
    [][\A s \in Servers :
          LET h == srv'[s].h IN
          /\ (srv[s].pc = "idle" /\ srv'[s].pc # "idle" /\ nstat' # nstat) =>
                 /\ srv'[s].resp = "nosuch" <=> status[h] = "None"
                 /\ srv'[s].resp = "nosuch" => srv'[s].pc = "reply"
          /\ (srv[s].pc = "stqueue" /\ srv'[s].pc = "reply") =>
                 IF Count(queue, h) = 0 THEN srv'[s].resp = "500"
                 ELSE /\ srv'[s].resp = "pos"
                      /\ queue[srv'[s].pos + 1] = h
                      /\ \A i \in 1..srv'[s].pos : queue[i] # h
          /\ (srv[s].pc = "stfile" /\ srv'[s].pc = "reply") =>
                 IF srv[s].seen = "Completed"
                 THEN IF MARKER_RESULT \in files[h]
                      THEN srv'[s].resp = "result"
                      ELSE srv'[s].resp = "500"
                 ELSE srv'[s].resp = "errtext"
      ]_vars

\* C16: when save_result (save_error) returns Ok, result.json (error)
\* exists, the status is Completed (Error), the packet is no longer in the
\* queue and the other packets of the queue keep their relative order.
C16_SaveReturns ==
    [][\A w \in Workers :
          (wk[w].pc = "dequeue" /\ wk'[w].pc = "idle"
              /\ restarts' = restarts) =>
              LET h == wk[w].h IN
              /\ Marker(wk[w].ok) \in files'[h]
              /\ status'[h] = Terminal(wk[w].ok)
              /\ Count(queue', h) = 0
              /\ queue' = SelectSeq(queue, LAMBDA g : g # h)
      ]_vars

\* a save is about to remove the middle packet of a queue of three
C16_Witness ==
    \E w \in Workers :
        /\ wk[w].pc = "dequeue"
        /\ Len(queue) = 3
        /\ queue[2] = wk[w].h
        /\ status[wk[w].h] = Terminal(wk[w].ok)

(***************************************************************************)
(* Claims about the driver, checked under SpecDock.                        *)
(***************************************************************************)
SandboxReturned == drv.pc = "done" /\ ~drv.commit

\* C7: after a sandbox call returns, on whatever path, no container named
\* "<tag>-ephemeral-<driver name>" exists.
C7_NoContainerAfterReturn == SandboxReturned => Existing = {}

\* C8: when sandbox returns Timeout, the container it started has been
\* removed.
C8_TimeoutRemoved ==
    SandboxReturned /\ drv.ret = "Timeout" =>
        drv.mine # 0 /\ cont[drv.mine] = "none"

\* a sandbox call returned Timeout and no container is left
C8_Witness ==
    SandboxReturned /\ drv.ret = "Timeout" /\ drv.mine # 0 /\ Existing = {}

\* C9: every sandbox call eventually returns: once the elapsed time exceeds
\* the timeout and the command has not exited, the call goes on to return
\* Timeout whether or not the container writes any further output, that
\* is, the driver has a step of its own to take.
C9_TimeoutWithoutFrames ==
    /\ drv.pc = "follow"
    /\ ~drv.commit
    /\ TimedOut
    /\ cont[drv.mine] = "running"
    => ENABLED DriverStep

CommitReturned == drv.pc = "done" /\ drv.commit

StageNames == {"baseline", "gcov", "aflpp", "klee", "symcc"}

\* struct ResultBaseline (tool_gcov.rs 38-45)
NoBaseline == [compiled |-> FALSE, input_pass |-> 0, input_fail |-> 0,
               crash_pass |-> 0, crash_fail |-> 0]

AnalyzeInit ==
    /\ \E n \in 0..MaxCases, m \in 0..MaxCases :
           an = [pc |-> "baseline", n |-> n, m |-> m, ran |-> <<>>,
                 res |-> [st \in StageNames |-> "none"],
                 base |-> NoBaseline, ret |-> "none"]
    /\ pv = ToolIdle
    /\ gc = ToolIdle
    /\ up = ToolIdle
    /\ lk = ToolIdle
    /\ sb = ToolIdle
    /\ RegInit
    /\ DockInit

\* the ? operator on a stage's Err (process.rs 50-53)
StageErr(st) ==
    an' = [an EXCEPT !.pc = "done", !.ran = Append(@, st),
                     !.res[st] = "Err", !.ret = "Err"]

\* run_baseline (tool_gcov.rs 75-157): a failed compilation gives
\* compiled = false and zero counts; otherwise every input case counts as
\* passed or failed and every crash case likewise
RunBaseline ==
    /\ an.pc = "baseline"
    /\ \/ StageErr("baseline")
       \/ an' = [an EXCEPT !.pc = "gcov", !.ran = Append(@, "baseline"),
                           !.res["baseline"] = "incomplete"]
       \/ \E ip \in 0..an.n, cp \in 0..an.m :
             an' = [an EXCEPT !.pc = "gcov", !.ran = Append(@, "baseline"),
                              !.res["baseline"] = "complete",
                              !.base = [compiled |-> TRUE,
                                        input_pass |-> ip,
                                        input_fail |-> an.n - ip,
                                        crash_pass |-> cp,
                                        crash_fail |-> an.m - cp]]
    /\ UNCHANGED <<regVars, dockVars, lk, sb, pv, gc, up>>

\* a stage that returns Err, completed = false or completed = true
Stage(st, next) ==
    /\ an.pc = st
    /\ \/ StageErr(st)
       \/ \E r \in {"incomplete", "complete"} :
             an' = [an EXCEPT !.pc = next, !.ran = Append(@, st),
                              !.res[st] = r]
    /\ UNCHANGED <<regVars, dockVars, lk, sb, pv, gc, up>>

\* run_gcov (tool_gcov.rs 187-271)
RunGcov == Stage("gcov", "aflpp")
\* run_aflpp (tool_aflpp.rs 43-125)
RunAflpp == Stage("aflpp", "klee")
\* run_klee (tool_klee.rs 55-137)
RunKlee == Stage("klee", "return")

\* process.rs 55-61: the AnalysisResult of the four results
AnalyzeReturn ==
    /\ an.pc = "return"
    /\ an' = [an EXCEPT !.pc = "done", !.ret = "Ok"]
    /\ UNCHANGED <<regVars, dockVars, lk, sb, pv, gc, up>>

AnalyzeNext ==
    \/ RunBaseline
    \/ RunGcov
    \/ RunAflpp
    \/ RunKlee
    \/ AnalyzeReturn

SpecAnalyze == AnalyzeInit /\ [][AnalyzeNext]_vars

(***************************************************************************)
(* The provisioning binary (worker/src/main.rs) with process::provision    *)
(* and Dock::build, one step per engine request.                           *)
(***************************************************************************)
\* the DOCKER_TAG of the tools provision builds, in its order.  In pv,
\* imgs are the tags that have an image and deleted (history) the tags
\* whose image this run has deleted.
ProvisionTags == <<"gcov", "afl", "klee">>

ProvisionInit ==
    /\ \E force \in BOOLEAN, imgs \in SUBSET {"gcov", "afl", "klee"} :
           pv = [pc |-> "start", force |-> force, imgs |-> imgs,
                 deleted |-> {}, tool |-> 1, result |-> "none",
                 code |-> -1]
    /\ an = ToolIdle
    /\ gc = ToolIdle
    /\ up = ToolIdle
    /\ lk = ToolIdle
    /\ sb = ToolIdle
    /\ RegInit
    /\ DockInit

\* provision returns Err through a ? operator
ProvisionErr == pv' = [pv EXCEPT !.pc = "exit", !.result = "Err"]

\* a build has returned Ok: the next tool, or Ok(()) after the last one
BuildDone(imgs) ==
    IF pv.tool = Len(ProvisionTags)
    THEN pv' = [pv EXCEPT !.pc = "exit", !.result = "Ok", !.imgs = imgs]
    ELSE pv' = [pv EXCEPT !.pc = "get", !.tool = @ + 1, !.imgs = imgs]

\* main.rs 8-20: the logger is set up (expect panics when it cannot be,
\* and a panic of main ends the process with code 101) and FORCE_PROVISION
\* is read
MainStart ==
    /\ pv.pc = "start"
    /\ \/ pv' = [pv EXCEPT !.pc = "new"]
       \/ pv' = [pv EXCEPT !.pc = "exited", !.code = 101]
    /\ UNCHANGED <<regVars, dockVars, lk, sb, an, gc, up>>

\* process.rs 13: Dock::new connects to the engine
ProvisionNew ==
    /\ pv.pc = "new"
    /\ \/ pv' = [pv EXCEPT !.pc = "get"]
       \/ ProvisionErr
    /\ UNCHANGED <<regVars, dockVars, lk, sb, an, gc, up>>

\* util_docker.rs 227-238: get_image; an image that exists is reused
\* unless force is set
BuildGet ==
    /\ pv.pc = "get"
    /\ \/ ProvisionErr
       \/ IF ProvisionTags[pv.tool] \in pv.imgs
          THEN IF pv.force THEN pv' = [pv EXCEPT !.pc = "del"]
               ELSE BuildDone(pv.imgs)
          ELSE pv' = [pv EXCEPT !.pc = "build"]
    /\ UNCHANGED <<regVars, dockVars, lk, sb, an, gc, up>>

\* util_docker.rs 232: del_image
BuildDel ==
    /\ pv.pc = "del"
    /\ \/ ProvisionErr
       \/ pv' = [pv EXCEPT !.pc = "build",
                           !.imgs = @ \ {ProvisionTags[pv.tool]},
                           !.deleted = @ \cup {ProvisionTags[pv.tool]}]
    /\ UNCHANGED <<regVars, dockVars, lk, sb, an, gc, up>>

\* util_docker.rs 241, 173-222: _build_async; the stream may end without
\* an image when the build failed inside the engine
BuildRun ==
    /\ pv.pc = "build"
    /\ \/ ProvisionErr
       \/ pv' = [pv EXCEPT !.pc = "confirm"]
       \/ pv' = [pv EXCEPT !.pc = "confirm",
                           !.imgs = @ \cup {ProvisionTags[pv.tool]}]
    /\ UNCHANGED <<regVars, dockVars, lk, sb, an, gc, up>>

\* util_docker.rs 243-252: confirm that the image exists
BuildConfirm ==
    /\ pv.pc = "confirm"
    /\ \/ ProvisionErr
       \/ IF ProvisionTags[pv.tool] \in pv.imgs
          THEN BuildDone(pv.imgs)
          ELSE ProvisionErr
    /\ UNCHANGED <<regVars, dockVars, lk, sb, an, gc, up>>

\* main.rs 23-29: both arms of the match fall through to the end of main,
\* the Err arm after logging the error
MainExit ==
    /\ pv.pc = "exit"
    /\ pv' = [pv EXCEPT !.pc = "exited", !.code = 0]
    /\ UNCHANGED <<regVars, dockVars, lk, sb, an, gc, up>>

ProvisionNext ==
    \/ MainStart
    \/ ProvisionNew
    \/ BuildGet
    \/ BuildDel
    \/ BuildRun
    \/ BuildConfirm
    \/ MainExit

SpecProvision == ProvisionInit /\ [][ProvisionNext]_vars

(***************************************************************************)
(* The end of run_gcov: the report gcov has written is read and parsed     *)
(* (tool_gcov.rs 254-271, 285-328).  A report is the part of the JSON      *)
(* document the parser looks at: per file the functions (name, blocks,     *)
(* blocks_executed) and the lines (function_name, absent as "none", and    *)
(* the counts of the branches).  typed is FALSE when some value has not    *)
(* the JSON type the parser asks for.  The counts are far below 2^64, the  *)
(* width of usize.                                                         *)
(***************************************************************************)
SeqsUpTo(S, n) == UNION {[1..k -> S] : k \in 0..n}

GcovNames == {"f", "g"}
\* gcov reports blocks_executed <= blocks
GcovFuncs == {[name |-> nm, blocks |-> b, executed |-> x] :
                 nm \in GcovNames, b \in 0..MaxBlocks, x \in 0..MaxBlocks}
GcovLines == [fn : GcovNames \cup {"none"},
              branches : SeqsUpTo({0, 1}, MaxBranches)]
GcovFiles == [functions : SeqsUpTo({f \in GcovFuncs :
                                       f.executed <= f.blocks}, MaxFuncs),
              lines : SeqsUpTo(GcovLines, MaxLines)]
GcovReports == [typed : BOOLEAN, files : SeqsUpTo(GcovFiles, MaxReportFiles)]

\* tool_gcov.rs 293-300: stats.insert(name, (blocks, blocks_executed)) for
\* every function, a later item replacing an earlier one of the same name
RECURSIVE InsertFuncs(_, _)
InsertFuncs(funcs, stats) ==
    IF funcs = <<>> THEN stats
    ELSE LET f == Head(funcs)
         IN  InsertFuncs(Tail(funcs),
                 [n \in DOMAIN stats \cup {f.name} |->
                     IF n = f.name THEN <<f.blocks, f.executed>>
                     ELSE stats[n]])

ZeroBranches(line) ==
    Cardinality({k \in 1..Len(line.branches) : line.branches[k] = 0})

\* tool_gcov.rs 302-318: every branch with count 0 on a line that names a
\* function adds one to that function's second counter; a line naming a
\* function that is not in stats ends the parse with None
RECURSIVE AddLines(_, _)
AddLines(lines, stats) ==
    IF lines = <<>> THEN [ok |-> TRUE, stats |-> stats]
    ELSE LET l == Head(lines)
         IN  IF l.fn = "none" THEN AddLines(Tail(lines), stats)
             ELSE IF l.fn \notin DOMAIN stats
                  THEN [ok |-> FALSE, stats |-> stats]
                  ELSE AddLines(Tail(lines),
                           [stats EXCEPT ![l.fn] =
                               <<@[1], @[2] + ZeroBranches(l)>>])

\* tool_gcov.rs 321-324: the sum of component k over stats.values()
RECURSIVE SumStats(_, _, _)
SumStats(names, stats, k) ==
    IF names = {} THEN 0
    ELSE LET n == CHOOSE x \in names : TRUE
         IN  stats[n][k] + SumStats(names \ {n}, stats, k)

\* tool_gcov.rs 285-328
RECURSIVE ParseFiles(_, _, _)
ParseFiles(fs, total_num_blocks, total_cov_blocks) ==
    IF fs = <<>>
    THEN [some |-> TRUE, num |-> total_num_blocks, cov |-> total_cov_blocks]
    ELSE LET r == AddLines(Head(fs).lines,
                           InsertFuncs(Head(fs).functions, <<>>))
         IN  IF ~r.ok THEN [some |-> FALSE, num |-> 0, cov |-> 0]
             ELSE ParseFiles(Tail(fs),
                      total_num_blocks
                          + SumStats(DOMAIN r.stats, r.stats, 1),
                      total_cov_blocks
                          + SumStats(DOMAIN r.stats, r.stats, 2))

parse_gcov_json_report(v) ==
    IF ~v.typed THEN [some |-> FALSE, num |-> 0, cov |-> 0]
    ELSE ParseFiles(v.files, 0, 0)

GcovInit ==
    /\ \E v \in GcovReports :
           gc = [pc |-> "report", report |-> v, ret |-> "none",
                 result |-> [completed |-> FALSE, num_blocks |-> 0,
                             cov_blocks |-> 0]]
    /\ an = ToolIdle
    /\ pv = ToolIdle
    /\ up = ToolIdle
    /\ lk = ToolIdle
    /\ sb = ToolIdle
    /\ RegInit
    /\ DockInit

\* tool_gcov.rs 257-270: bail when the report does not parse, else
\* Ok(ResultGcov { completed: true, num_blocks, cov_blocks })
GcovParse ==
    /\ gc.pc = "report"
    /\ LET r == parse_gcov_json_report(gc.report)
       IN  gc' = IF r.some
                 THEN [gc EXCEPT !.pc = "done", !.ret = "Ok",
                                 !.result = [completed |-> TRUE,
                                             num_blocks |-> r.num,
                                             cov_blocks |-> r.cov]]
                 ELSE [gc EXCEPT !.pc = "done", !.ret = "Err"]
    /\ UNCHANGED <<regVars, dockVars, lk, sb, an, pv, up>>

GcovNext == GcovParse

SpecGcov == GcovInit /\ [][GcovNext]_vars

(***************************************************************************)
(* Registry::register as a function of the directory it is given           *)
(* (packet.rs 92-221) and of what it installs (packet.rs 237-249), on an   *)
(* empty registry and with every filesystem call succeeding (the failures  *)
(* are RegisterFails above).                                               *)
(*                                                                         *)
(* An upload x is the extracted archive: nested when the submission lies   *)
(* in a directory pkg/ of the archive, wrap when the archive has a second  *)
(* top-level entry next to pkg/; extra are the entries of the submission   *)
(* besides main.c, input/ and crash/; input and crash list the files of    *)
(* the two directories in the order read_dir returns them.  A content is a *)
(* sequence of bytes.  The digest is modelled by the sequence of what is   *)
(* fed to the hasher, the tags and the index bytes being single tokens.    *)
(***************************************************************************)
TestNames == {"0", "1", "t"}
CrashNames == {"t"}
TestDatas == {<<"a">>, <<"b">>, <<"a", "a">>}
ProgramDatas == {<<"a">>, <<"b">>, <<"a", "a", "a">>}
ExtraNames == {"README.md", "notes.txt"}

FilesOf(list) == {list[k].name : k \in 1..Len(list)}

TestDirs(names, n) ==
    {l \in SeqsUpTo([name : names, data : TestDatas], n) :
        \A i, j \in 1..Len(l) : l[i].name = l[j].name => i = j}

Uploads ==
    {[nested |-> top[1], wrap |-> top[2], extra |-> ex,
      hasMain |-> mc[1], mainc |-> mc[2],
      hasInput |-> inp[1], input |-> inp[2],
      hasCrash |-> cr[1], crash |-> cr[2]] :
        top \in {<<FALSE, FALSE>>, <<TRUE, FALSE>>, <<TRUE, TRUE>>},
        ex \in SUBSET ExtraNames,
        mc \in {<<FALSE, <<>>>>} \cup ({TRUE} \X ProgramDatas),
        inp \in {<<FALSE, <<>>>>} \cup ({TRUE} \X TestDirs(TestNames, MaxTests)),
        cr \in {<<FALSE, <<>>>>}
                  \cup ({TRUE} \X TestDirs(CrashNames, MaxCrash))}

\* the entries that are directories
IsDir(n) == n \in {"pkg", "__MACOSX", "input", "crash", "output"}

\* the entries of the submission directory
BaseEntries(x) ==
    x.extra \cup (IF x.hasMain THEN {"main.c"} ELSE {})
            \cup (IF x.hasInput THEN {"input"} ELSE {})
            \cup (IF x.hasCrash THEN {"crash"} ELSE {})

\* the entries of the directory register is given
TopEntries(x) ==
    IF x.nested
    THEN {"pkg"} \cup (IF x.wrap THEN {"__MACOSX"} ELSE {})
    ELSE BaseEntries(x)

\* a register that never looks below the directory it is given
ProbeFlat(x) == FALSE

\* packet.rs 98-116: the base is the only entry of tmp when that is a
\* directory (the loop leaves at the second entry), else tmp itself
Probe(x) ==
    Cardinality(TopEntries(x)) = 1 /\ \A n \in TopEntries(x) : IsDir(n)

\* the base: its entries, and whether it is the submission directory (it
\* is not when the directory given holds pkg/ and more, or when a lone
\* input/, crash/ or output/ of a submission is taken for the base)
Base(x) ==
    IF Probe(x)
    THEN IF x.nested
         THEN [entries |-> BaseEntries(x), sub |-> TRUE]
         ELSE [entries |-> IF TopEntries(x) = {"input"}
                           THEN FilesOf(x.input)
                           ELSE IF TopEntries(x) = {"crash"}
                                THEN FilesOf(x.crash)
                                ELSE {},
               sub |-> FALSE]
    ELSE [entries |-> TopEntries(x), sub |-> ~x.nested]

\* packet.rs 126: the names the scan accepts
Kept == {"main.c", "interface.h", "input", "crash"}
\* packet.rs 128-135: a file README* and a directory output* are removed
\* from the base
Removed(n) == n \in {"README.md", "output"}
\* packet.rs 118-140
ScanOk(entries) == \A n \in entries : n \in Kept \/ Removed(n)
AfterScan(entries) == entries \cap Kept

\* packet.rs 165-177, 195-207: every item is a file of at most 1024 bytes
TestsOk(list) == \A k \in 1..Len(list) : Len(list[k].data) <= TestLimit

\* the files of a directory by name
FsOf(list) ==
    [n \in FilesOf(list) |->
        list[CHOOSE k \in 1..Len(list) : list[k].name = n].data]

\* i.to_string() and i.to_ne_bytes()
IndexName(i) == CASE i = 0 -> "0" [] i = 1 -> "1" [] i = 2 -> "2"
                  [] OTHER -> "3"
IndexBytes(i) == CASE i = 0 -> "i0" [] i = 1 -> "i1" [] i = 2 -> "i2"
                   [] OTHER -> "i3"

\* fs::rename(from, to): to is replaced when it exists
Rename(fs, from, to) ==
    IF from = to THEN fs
    ELSE [n \in (DOMAIN fs \ {from}) \cup {to} |->
             IF n = to THEN fs[from] ELSE fs[n]]

\* packet.rs 178-187, 208-217: for the i-th path collected from the
\* listing, feed the tag, the index and the content now at that path to
\* the hasher and rename the file to the index
RECURSIVE HashTests(_, _, _, _, _)
HashTests(tag, paths, i, fs, digest) ==
    IF i = Len(paths) THEN [digest |-> digest, fs |-> fs]
    ELSE LET item_path == paths[i + 1]
         IN  HashTests(tag, paths, i + 1,
                       Rename(fs, item_path, IndexName(i)),
                       digest \o <<tag, IndexBytes(i)>> \o fs[item_path])

PathsOf(list) == [k \in 1..Len(list) |-> list[k].name]

NoResult == [ok |-> FALSE, hash |-> <<>>,
             tree |-> [entries |-> {}, mainc |-> <<>>, input |-> <<>>,
                       crash |-> <<>>]]

\* packet.rs 92-252 on an empty registry: Err, or the hash and the
\* installed directory <root>/hash/
Register(x) ==
    LET base == Base(x)
    IN  IF ~ScanOk(base.entries) THEN NoResult
        ELSE IF ~(base.sub /\ x.hasMain) THEN NoResult
        ELSE IF Len(x.mainc) > ProgramLimit THEN NoResult
        ELSE IF ~(x.hasInput /\ TestsOk(x.input)) THEN NoResult
        ELSE IF ~(x.hasCrash /\ TestsOk(x.crash)) THEN NoResult
        ELSE LET hi == HashTests("input", PathsOf(x.input), 0,
                                 FsOf(x.input), <<"program">> \o x.mainc)
                 hc == HashTests("crash", PathsOf(x.crash), 0,
                                 FsOf(x.crash), hi.digest)
             IN  [ok |-> TRUE, hash |-> hc.digest,
                  tree |-> [entries |-> AfterScan(base.entries)
                                           \cup {"interface.h", "output"},
                            mainc |-> x.mainc,
                            input |-> hi.fs,
                            crash |-> hc.fs]]

\* the orders in which read_dir may return the files of a directory
Listings(fs) ==
    {[k \in 1..Cardinality(DOMAIN fs) |->
         [name |-> p[k], data |-> fs[p[k]]]] :
        p \in {q \in [1..Cardinality(DOMAIN fs) -> DOMAIN fs] :
                  \A i, j \in DOMAIN q : q[i] = q[j] => i = j}}

Reverse(s) == [k \in 1..Len(s) |-> s[Len(s) + 1 - k]]

\* a second upload y, made from the first one x:
\*   nest       the same directory, inside a single pkg/ instead of at the
\*              top or the other way round (the same names created in the
\*              same order list in the same order)
\*   order      the same files, input/ listed in the opposite order
\*   names      the same contents in the same order under other names
\*   extras     a README.md, an interface.h or an output/ more or less
\*   installed  a copy of the directory the first register installed, as
\*              it is or after a save has written its marker, its
\*              directories listed in any order
SecondUploads(x, r1) ==
    (IF x.wrap THEN {} ELSE {<<"nest", [x EXCEPT !.nested = ~@]>>})
    \cup
    IF ~r1.ok THEN {}
    ELSE (IF Len(x.input) > 1
          THEN {<<"order", [x EXCEPT !.input = Reverse(@)]>>}
          ELSE {})
         \cup {<<"names", [x EXCEPT !.input = l]>> :
                  l \in {m \in TestDirs(TestNames, MaxTests) :
                            /\ m # x.input
                            /\ Len(m) = Len(x.input)
                            /\ \A k \in 1..Len(m) :
                                  m[k].data = x.input[k].data}}
         \cup {<<"extras",
                 [x EXCEPT !.extra = IF e \in @ THEN @ \ {e}
                                     ELSE @ \cup {e}]>> :
                  e \in {"README.md", "interface.h", "output"}}
         \cup {<<"installed",
                 [nested |-> FALSE, wrap |-> FALSE,
                  extra |-> (r1.tree.entries \ {"main.c", "input", "crash"})
                               \cup mk,
                  hasMain |-> TRUE, mainc |-> r1.tree.mainc,
                  hasInput |-> TRUE, input |-> li[1],
                  hasCrash |-> TRUE, crash |-> li[2]]>> :
                  mk \in {{}, {MARKER_RESULT}, {MARKER_ERROR}},
                  li \in Listings(r1.tree.input)
                            \X Listings(r1.tree.crash)}

UploadInit ==
    /\ \E x \in Uploads :
           up = [pc |-> "upload", x |-> x, r1 |-> NoResult,
                 kind |-> "none", y |-> x, r2 |-> NoResult]
    /\ an = ToolIdle
    /\ pv = ToolIdle
    /\ gc = ToolIdle
    /\ lk = ToolIdle
    /\ sb = ToolIdle
    /\ RegInit
    /\ DockInit

\* register on the first upload
RegisterFirst ==
    /\ up.pc = "upload"
    /\ up' = [up EXCEPT !.pc = "registered", !.r1 = Register(up.x)]
    /\ UNCHANGED <<regVars, dockVars, lk, sb, an, pv, gc>>

\* register on a second upload, in a registry that does not hold the
\* first one
RegisterSecond ==
    /\ up.pc = "registered"
    /\ \E v \in SecondUploads(up.x, up.r1) :
           up' = [up EXCEPT !.pc = "done", !.kind = v[1], !.y = v[2],
                            !.r2 = Register(v[2])]
    /\ UNCHANGED <<regVars, dockVars, lk, sb, an, pv, gc>>

RegisterNext ==
    \/ RegisterFirst
    \/ RegisterSecond

SpecRegister == UploadInit /\ [][RegisterNext]_vars

(***************************************************************************)
(* The worker loop and the answers of handle_submit.                       *)
(***************************************************************************)
\* C22: for every packet a worker receives it calls exactly one save, the
\* one that matches the outcome of analyze (save_result after Ok,
\* save_error after Err): the step that ends analyze enters that save, a
\* save is entered from nowhere else, it creates no marker but its own,
\* and a save that fails leaves the worker at recv, ready for the next
\* packet.
C22_OneSavePerPacket ==
    [][\A w \in Workers :
          (restarts' = restarts /\ wk'[w] # wk[w]) =>
              /\ wk[w].pc = "analyze" =>
                     wk'[w].pc = "save" /\ wk'[w].h = wk[w].h
              /\ wk'[w].pc = "save" => wk[w].pc = "analyze"
              /\ wk[w].pc = "save" =>
                     /\ wk'[w].pc \in {"mark", "idle"}
                     /\ wk'[w].pc = "mark" => wk'[w].h = wk[w].h
                                               /\ wk'[w].ok = wk[w].ok
                     /\ wk'[w].pc = "idle" <=> wk'[w].failed
                     /\ \A h \in Hashes :
                            files'[h] \ files[h] \subseteq
                                IF h = wk[w].h THEN {Marker(wk[w].ok)}
                                ELSE {}
              /\ wk[w].pc = "mark" =>
                     wk'[w].pc = "dequeue" /\ wk'[w].h = wk[w].h
              /\ wk[w].pc = "dequeue" => wk'[w] = WkIdle
              /\ wk[w].pc = "idle" => wk'[w].pc = "analyze"]_vars

\* a worker whose last save returned Err holds the next packet, while
\* that earlier packet is still Received
C22_Witness ==
    \E w \in Workers :
        /\ wk[w].pc = "analyze"
        /\ wk[w].failed
        /\ \E h \in Hashes \ {wk[w].h} :
               status[h] = "Received" /\ Count(channel, h) = 0
               /\ \A v \in Workers : wk[v].h # h

\* C23 (as stated): a submit whose register failed on a filesystem error
\* in the registry directory is answered 500.
C23_IoErrorIs500 ==
    \A s \in Servers :
        srv[s].pc = "reply" /\ srv[s].io => srv[s].resp = "500"

\* C24: when handle_submit has its response, the scratch directory of the
\* request is gone, or the response is a 500.
C24_ScratchGone ==
    \A s \in Servers :
        srv[s].pc = "reply" => ~srv[s].scratch \/ srv[s].resp = "500"

\* one request is answered 200 with its scratch directory removed, another
\* one 500 because its scratch directory could not be removed after
\* register had returned
C24_Witness ==
    /\ \E s \in Servers :
           /\ srv[s].pc = "reply"
           /\ srv[s].resp \in {"new", "dup"}
           /\ ~srv[s].scratch
    /\ \E s \in Servers :
           /\ srv[s].pc = "reply"
           /\ srv[s].h # 0
           /\ srv[s].scratch
           /\ srv[s].resp = "500"

(***************************************************************************)
(* The analysis pipeline.                                                  *)
(***************************************************************************)
\* the order of the stages: baseline, coverage, fuzzing, symbolic, hybrid
FiveStages == <<"baseline", "gcov", "aflpp", "klee", "symcc">>

IsPrefix(s, q) == Len(s) <= Len(q) /\ \A i \in 1..Len(s) : s[i] = q[i]

\* C21: analyze runs the five stages in the order baseline, coverage,
\* fuzzing, symbolic, hybrid: what has run is a prefix of that order; an
\* Ok return has run all five and has a result of each, whether the
\* stage completed or not; an Err return comes from the last stage that
\* ran, and every stage before it returned a result.
C21_FiveStagesInOrder ==
    an.pc # "idle" =>
        /\ IsPrefix(an.ran, FiveStages)
        /\ an.ret = "Ok" =>
               /\ an.ran = FiveStages
               /\ \A st \in StageNames :
                      an.res[st] \in {"incomplete", "complete"}
        /\ an.ret = "Err" =>
               /\ an.ran # <<>>
               /\ \A i \in 1..Len(an.ran) :
                      an.res[an.ran[i]] = "Err" <=> i = Len(an.ran)

\* the same with the four stages analyze calls
C21_FourStagesInOrder ==
    an.pc # "idle" =>
        /\ IsPrefix(an.ran, SubSeq(FiveStages, 1, 4))
        /\ an.ret = "Ok" =>
               /\ an.ran = SubSeq(FiveStages, 1, 4)
               /\ \A i \in 1..4 :
                      an.res[FiveStages[i]] \in {"incomplete", "complete"}
               /\ an.res["symcc"] = "none"
        /\ an.ret = "Err" =>
               /\ an.ran # <<>>
               /\ \A i \in 1..Len(an.ran) :
                      an.res[an.ran[i]] = "Err" <=> i = Len(an.ran)

(***************************************************************************)
(* The provisioning binary.                                                *)
(***************************************************************************)
\* C29: the provisioning binary ends with exit code 0 when provision
\* returned Ok and with a nonzero exit code when provision returned Err.
C29_ExitCode ==
    (pv.pc = "exited" /\ pv.result # "none") =>
        (pv.code = 0 <=> pv.result = "Ok")

(***************************************************************************)
(* The coverage numbers.                                                   *)
(***************************************************************************)
\* C30: a ResultGcov with completed = true that run_gcov returns for a
\* report that parses has num_blocks >= cov_blocks.
C30_CovWithinBlocks ==
    (gc.pc = "done" /\ gc.ret = "Ok" /\ gc.result.completed) =>
        gc.result.num_blocks >= gc.result.cov_blocks

(***************************************************************************)
(* The hash and the installed directory.                                   *)
(***************************************************************************)
\* C25: a README* file of a submission that register accepts is in the
\* installed directory.
C25_ReadmeInstalled ==
    (up.pc \in {"registered", "done"} /\ up.r1.ok
        /\ "README.md" \in up.x.extra) =>
            "README.md" \in up.r1.tree.entries

\* the contents of a test directory, each as often as it occurs
DataBag(list) ==
    [d \in TestDatas |-> Cardinality({k \in 1..Len(list) : list[k].data = d})]

SameContents(x, y) ==
    /\ x.mainc = y.mainc
    /\ DataBag(x.input) = DataBag(y.input)
    /\ DataBag(x.crash) = DataBag(y.crash)

\* C26: two accepted uploads with the same main.c and the same contents
\* of input/ and of crash/ get the same hash, whatever the listing order,
\* the file names and the README*, interface.h and output/ entries.
C26_HashOfContents ==
    (up.pc = "done" /\ up.r1.ok /\ up.r2.ok /\ SameContents(up.x, up.y)) =>
        up.r2.hash = up.r1.hash

\* a submission as the upload format asks for it
WellFormed(x) ==
    /\ x.hasMain /\ Len(x.mainc) <= ProgramLimit
    /\ x.hasInput /\ TestsOk(x.input)
    /\ x.hasCrash /\ TestsOk(x.crash)
    /\ x.extra \subseteq {"README.md", "interface.h", "output"}

\* C27: an upload that holds the submission in a single directory and the
\* upload that holds the same submission at its top are treated alike:
\* register accepts both or rejects both, it accepts both when the
\* submission is well-formed, and the two hashes are the same.
C27_NestedSameHash ==
    (up.pc = "done" /\ up.kind = "nest") =>
        /\ up.r1.ok <=> up.r2.ok
        /\ WellFormed(up.x) => up.r1.ok
        /\ up.r2.hash = up.r1.hash

\* a nested submission with two input files, a crash file and a README is
\* accepted, and so is the same submission at the top
C27_Witness ==
    /\ up.pc = "done"
    /\ up.kind = "nest"
    /\ up.x.nested /\ ~up.y.nested
    /\ Len(up.x.input) = 2
    /\ Len(up.x.crash) = 1
    /\ "README.md" \in up.x.extra
    /\ up.r1.ok /\ up.r2.ok
    /\ up.r1.hash # <<>>

\* C28: register on a copy of the directory that an earlier register
\* installed succeeds and gives the hash of that directory.
C28_RoundTrip ==
    (up.pc = "done" /\ up.kind = "installed") =>
        up.r2.ok /\ up.r2.hash = up.r1.hash

(***************************************************************************)
(* The three RwLocks of the Registry (packet.rs 41-45) and the operations  *)
(* that take them, run by LockThreads threads at once.  Every operation is *)
(* the sequence of its lock calls, drops and filesystem steps, in source   *)
(* order; a read() waits while another thread holds the write guard, a     *)
(* write() waits while another thread holds any guard.                     *)
(***************************************************************************)
LockThreads == 1..NumLockThreads

Acq(l, m) == [k |-> "acq", l |-> l, m |-> m]
Rel(l) == [k |-> "rel", l |-> l, m |-> "-"]
Io(what) == [k |-> "io", l |-> what, m |-> "-"]

\* save_result and save_error take the same locks in the same order, and
\* so do the Completed and the Error branch of load_packet_status
RegistryOps == {"register", "register (existed)", "queue", "save",
                "load_packet_status (None)",
                "load_packet_status (Received)",
                "load_packet_status (saved)", "mk_dockerized_packet",
                "snapshot"}

\* a queue() and saves that keep their first guard while they take the
\* second lock
ScriptNested(op) ==
    CASE op = "register" ->
           <<Acq("root", "w"), Io("exists, create_dir_all"), Rel("root"),
             Io("copy")>>
      [] op = "register (existed)" ->
           <<Acq("root", "w"), Io("exists, create_dir_all"), Rel("root")>>
      [] op = "queue" ->
           <<Acq("queue", "w"), Io("push"), Acq("packets", "w"),
             Io("insert"), Rel("packets"), Rel("queue")>>
      [] op = "save" ->
           <<Acq("root", "r"), Rel("root"), Io("marker"),
             Acq("packets", "w"), Io("insert"),
             Acq("queue", "w"), Io("retain"), Rel("queue"),
             Rel("packets")>>
      [] op = "load_packet_status (None)" ->
           <<Acq("packets", "r"), Rel("packets")>>
      [] op = "load_packet_status (Received)" ->
           <<Acq("packets", "r"), Rel("packets"),
             Acq("queue", "r"), Io("position"), Rel("queue")>>
      [] op = "load_packet_status (saved)" ->
           <<Acq("packets", "r"), Rel("packets"),
             Acq("root", "r"), Rel("root"), Io("read")>>
      [] op = "mk_dockerized_packet" ->
           <<Acq("root", "r"), Rel("root"), Io("output")>>
      [] op = "snapshot" ->
           <<Acq("packets", "r"), Io("clone"), Rel("packets")>>

\* the lock calls, drops and other steps of a Registry operation
Script(op) ==
    CASE op = "register" ->                        \* packet.rs 224-248
           <<Acq("root", "w"), Io("exists, create_dir_all"), Rel("root"),
             Io("copy")>>
      [] op = "register (existed)" ->              \* packet.rs 224-232
           <<Acq("root", "w"), Io("exists, create_dir_all"), Rel("root")>>
      [] op = "queue" ->                           \* packet.rs 320-326
           <<Acq("queue", "w"), Io("push"), Rel("queue"),
             Acq("packets", "w"), Io("insert"), Rel("packets")>>
      [] op = "save" ->                   \* packet.rs 332-345, 354-367
           <<Acq("root", "r"), Rel("root"), Io("marker"),
             Acq("packets", "w"), Io("insert"), Rel("packets"),
             Acq("queue", "w"), Io("retain"), Rel("queue")>>
      [] op = "load_packet_status (None)" ->       \* packet.rs 378-383
           <<Acq("packets", "r"), Rel("packets")>>
      [] op = "load_packet_status (Received)" ->   \* packet.rs 378-394
           <<Acq("packets", "r"), Rel("packets"),
             Acq("queue", "r"), Io("position"), Rel("queue")>>
      [] op = "load_packet_status (saved)" ->      \* packet.rs 378-413
           <<Acq("packets", "r"), Rel("packets"),
             Acq("root", "r"), Rel("root"), Io("read")>>
      [] op = "mk_dockerized_packet" ->            \* packet.rs 268-282
           <<Acq("root", "r"), Rel("root"), Io("output")>>
      [] op = "snapshot" ->                        \* packet.rs 257-258
           <<Acq("packets", "r"), Io("clone"), Rel("packets")>>

LockIdle == [op |-> "none", at |-> 0]

LockInit ==
    /\ lk = [th |-> [t \in LockThreads |-> LockIdle],
             held |-> [t \in LockThreads |-> {}],
             n |-> 0]                  \* operations called so far (history)
    /\ an = ToolIdle
    /\ pv = ToolIdle
    /\ gc = ToolIdle
    /\ up = ToolIdle
    /\ sb = ToolIdle
    /\ RegInit
    /\ DockInit

\* the step thread t is at, if it runs an operation
Busy(t) == lk.th[t].op # "none"
AtEnd(t) == Busy(t) /\ lk.th[t].at > Len(Script(lk.th[t].op))
Step(t) == Script(lk.th[t].op)[lk.th[t].at]

\* RwLock::read / RwLock::write return
Free(t, l, m) ==
    \A u \in LockThreads \ {t} :
        IF m = "w" THEN \A g \in lk.held[u] : g[1] # l
        ELSE <<l, "w">> \notin lk.held[u]

\* a thread calls a Registry operation
LockBegin(t, op) ==
    /\ ~Busy(t)
    /\ lk.n < MaxLockOps
    /\ lk' = [lk EXCEPT !.th[t] = [op |-> op, at |-> 1], !.n = @ + 1]
    /\ UNCHANGED <<regVars, dockVars, an, pv, gc, up, sb>>

LockAcquire(t) ==
    /\ Busy(t) /\ ~AtEnd(t)
    /\ Step(t).k = "acq"
    /\ Free(t, Step(t).l, Step(t).m)
    /\ lk' = [lk EXCEPT !.th[t].at = @ + 1,
                        !.held[t] = @ \cup {<<Step(t).l, Step(t).m>>}]
    /\ UNCHANGED <<regVars, dockVars, an, pv, gc, up, sb>>

\* drop(locked), or the guard goes out of scope
LockRelease(t) ==
    /\ Busy(t) /\ ~AtEnd(t)
    /\ Step(t).k = "rel"
    /\ lk' = [lk EXCEPT !.th[t].at = @ + 1,
                        !.held[t] = {g \in @ : g[1] # Step(t).l}]
    /\ UNCHANGED <<regVars, dockVars, an, pv, gc, up, sb>>

\* a step that takes no lock: on the filesystem, or on the guarded value
LockIo(t) ==
    /\ Busy(t) /\ ~AtEnd(t)
    /\ Step(t).k = "io"
    /\ lk' = [lk EXCEPT !.th[t].at = @ + 1]
    /\ UNCHANGED <<regVars, dockVars, an, pv, gc, up, sb>>

\* the operation returns
LockEnd(t) ==
    /\ AtEnd(t)
    /\ lk' = [lk EXCEPT !.th[t] = LockIdle]
    /\ UNCHANGED <<regVars, dockVars, an, pv, gc, up, sb>>

LockNext ==
    \/ \E t \in LockThreads : \E op \in RegistryOps : LockBegin(t, op)
    \/ \E t \in LockThreads : LockAcquire(t)
    \/ \E t \in LockThreads : LockRelease(t)
    \/ \E t \in LockThreads : LockIo(t)
    \/ \E t \in LockThreads : LockEnd(t)

SpecLocks == LockInit /\ [][LockNext]_vars

(***************************************************************************)
(* The sandbox calls of the worker threads and the names of their          *)
(* containers.  Worker thread w (the w-th spawned, i = w - 1) owns the     *)
(* driver "worker-i" (main.rs 225) and makes its sandbox calls one after   *)
(* the other; the hybrid stage run_symcc (tool_symcc.rs 58-199), run with  *)
(* the worker's driver, starts afl-fuzz from a thread of its own on the    *)
(* duplicate of that driver.  A string with "-" between its parts is the   *)
(* sequence of the parts.                                                  *)
(***************************************************************************)
SandboxTags == {"gcov", "afl", "klee", "symcc"}

\* main.rs 225: format!("worker-{}", i)
DockName(w) == <<"worker", ToString(w - 1)>>

\* util_docker.rs 61-63: format!("{}-sideline", self.name)
Duplicate(name) == name \o <<"sideline">>

\* util_docker.rs 376: format!("{}-ephemeral-{}", tag, self.name)
EphemeralName(tag, name) == <<tag, "ephemeral">> \o name

SandboxInit ==
    /\ sb = [w |-> [w \in Workers |-> "idle"],
             live |-> {},     \* the containers of the calls under way
             failed |-> {},   \* calls that bailed at the name check (history)
             ended |-> {},    \* how the hybrid stages have returned (history)
             n |-> 0]         \* calls made so far (history)
    /\ an = ToolIdle
    /\ pv = ToolIdle
    /\ gc = ToolIdle
    /\ up = ToolIdle
    /\ lk = ToolIdle
    /\ RegInit
    /\ DockInit

Invocation(name, w, side) == [name |-> name, by |-> w, side |-> side]

\* util_docker.rs 375-383: the containers that carry the name
Taken(name) == {c \in sb.live : c.name = name}

\* a stage makes a sandbox call with the worker's driver (docker_run in
\* tool_gcov.rs 282, tool_aflpp.rs 136, tool_klee.rs 148, tool_symcc.rs
\* 210): _run bails when the name is taken, else the container is created
SandboxCall(w, tag) ==
    LET name == EphemeralName(tag, DockName(w)) IN
    /\ sb.w[w] = "idle"
    /\ sb.n < MaxSandboxCalls
    /\ IF Taken(name) # {}
       THEN sb' = [sb EXCEPT
                     !.n = @ + 1,
                     !.failed = @ \cup {[call |-> Invocation(name, w, FALSE),
                                         with |-> c] : c \in Taken(name)}]
       ELSE sb' = [sb EXCEPT
                     !.n = @ + 1,
                     !.w[w] = "run",
                     !.live = @ \cup {Invocation(name, w, FALSE)}]
    /\ UNCHANGED <<regVars, dockVars, an, pv, gc, up, lk>>

\* the call returns: _run has removed its container
SandboxReturn(w) ==
    /\ sb.w[w] = "run"
    /\ sb' = [sb EXCEPT !.w[w] = "idle",
                        !.live = {c \in @ : ~(c.by = w /\ ~c.side)}]
    /\ UNCHANGED <<regVars, dockVars, an, pv, gc, up, lk>>

\* tool_symcc.rs 104-124: dock.duplicate() and the thread that runs
\* afl-fuzz with it; its _run bails when the name is taken, the thread is
\* then finished and run_symcc bails at 131 ("AFL not started")
HybridSpawn(w) ==
    LET name == EphemeralName("symcc", Duplicate(DockName(w))) IN
    /\ sb.w[w] = "idle"
    /\ sb.n < MaxSandboxCalls
    /\ IF Taken(name) # {}
       THEN sb' = [sb EXCEPT
                     !.n = @ + 1,
                     !.failed = @ \cup {[call |-> Invocation(name, w, TRUE),
                                         with |-> c] : c \in Taken(name)}]
       ELSE sb' = [sb EXCEPT
                     !.n = @ + 1,
                     !.w[w] = "ready",
                     !.live = @ \cup {Invocation(name, w, TRUE)}]
    /\ UNCHANGED <<regVars, dockVars, an, pv, gc, up, lk>>

\* the side call ends, by its timeout or because afl-fuzz exits, and its
\* thread removes the container
SideEnd(w) ==
    /\ \E c \in sb.live : c.by = w /\ c.side
    /\ sb' = [sb EXCEPT !.live = {c \in @ : ~(c.by = w /\ c.side)}]
    /\ UNCHANGED <<regVars, dockVars, an, pv, gc, up, lk>>

\* tool_symcc.rs 129-134: the side thread has finished before afl-0/queue
\* appeared
HybridBail(w) ==
    /\ sb.w[w] = "ready"
    /\ ~\E c \in sb.live : c.by = w /\ c.side
    /\ sb' = [sb EXCEPT !.w[w] = "idle",
                        !.ended = @ \cup {<<w, "not started">>}]
    /\ UNCHANGED <<regVars, dockVars, an, pv, gc, up, lk>>

\* tool_symcc.rs 137-153: afl-0/queue is there; symcc_fuzzing_helper is
\* run with the worker's driver
HybridHelper(w) ==
    LET name == EphemeralName("symcc", DockName(w)) IN
    /\ sb.w[w] = "ready"
    /\ IF Taken(name) # {}
       THEN sb' = [sb EXCEPT
                     !.w[w] = "idle",
                     !.failed = @ \cup {[call |-> Invocation(name, w, FALSE),
                                         with |-> c] : c \in Taken(name)}]
       ELSE sb' = [sb EXCEPT
                     !.w[w] = "helper",
                     !.live = @ \cup {Invocation(name, w, FALSE)}]
    /\ UNCHANGED <<regVars, dockVars, an, pv, gc, up, lk>>

\* tool_symcc.rs 153-159: the helper's call returns.  After a Timeout
\* run_symcc goes on to join the side thread; after an Err (the ? at 153)
\* or any other exit status it returns at once and the side thread is left
\* running
HybridHelperEnd(w) ==
    /\ sb.w[w] = "helper"
    /\ \E timeout \in BOOLEAN :
          sb' = [sb EXCEPT !.w[w] = IF timeout THEN "join" ELSE "idle",
                           !.ended = IF timeout THEN @
                                     ELSE @ \cup {<<w, "not joined">>},
                           !.live = {c \in @ : ~(c.by = w /\ ~c.side)}]
    /\ UNCHANGED <<regVars, dockVars, an, pv, gc, up, lk>>

\* tool_symcc.rs 162-175: handle.join() returns when the side call is over
HybridJoin(w) ==
    /\ sb.w[w] = "join"
    /\ ~\E c \in sb.live : c.by = w /\ c.side
    /\ sb' = [sb EXCEPT !.w[w] = "idle",
                        !.ended = @ \cup {<<w, "joined">>}]
    /\ UNCHANGED <<regVars, dockVars, an, pv, gc, up, lk>>

SandboxNext ==
    \/ \E w \in Workers : \E tag \in SandboxTags : SandboxCall(w, tag)
    \/ \E w \in Workers : SandboxReturn(w)
    \/ \E w \in Workers : HybridSpawn(w)
    \/ \E w \in Workers : SideEnd(w)
    \/ \E w \in Workers : HybridBail(w)
    \/ \E w \in Workers : HybridHelper(w)
    \/ \E w \in Workers : HybridHelperEnd(w)
    \/ \E w \in Workers : HybridJoin(w)

SpecSandbox == SandboxInit /\ [][SandboxNext]_vars

(***************************************************************************)
(* Claims about the locks, the container names, the packet directory and   *)
(* the life of a packet within one process run.                            *)
(***************************************************************************)
\* C40: when save_result or save_error fails while it writes its marker,
\* it returns Err without changing the status map, the queue or the
\* channel: the packet is still Received and keeps its place in the queue;
\* and no packet is received from the channel twice in one process run,
\* so the packet is not analyzed again in that run.
C40_FailedSaveKeepsPacket ==
    /\ [](\A h \in Hashes : taken[h] <= 1)
    /\ [][\A w \in Workers :
             (wk[w].pc = "save" /\ wk'[w].pc = "idle"
                 /\ restarts' = restarts) =>
                 /\ wk'[w].failed
                 /\ status' = status
                 /\ queue' = queue
                 /\ channel' = channel
                 /\ status[wk[w].h] = "Received"
                 /\ Count(queue, wk[w].h) = 1
         ]_vars

\* a save of h has failed: h is Received and queued, it has been received
\* once, and neither the channel nor a worker holds it any more
C40_Witness ==
    \E h \in Hashes :
        /\ phase = "running"
        /\ \E w \in Workers : wk[w].pc = "idle" /\ wk[w].failed
        /\ \A w \in Workers : wk[w].pc = "idle"
        /\ status[h] = "Received"
        /\ Count(queue, h) = 1
        /\ Count(channel, h) = 0
        /\ taken[h] = 1
        /\ sent[h] = 1

\* C39: within one process run, once the status of H is Completed or Error
\* it stays what it is, and H is not appended to the queue and not sent on
\* the channel again, also when the same content is submitted again.
C39_TerminalIsFinal ==
    [][\A h \in Hashes :
          (IsTerminal(status[h]) /\ restarts' = restarts) =>
              /\ status'[h] = status[h]
              /\ Count(queue', h) <= Count(queue, h)
              /\ sent'[h] = sent[h]
      ]_vars

\* a submit of the content of a packet that is terminal and out of the
\* queue has been recognised as a duplicate
C39_Witness ==
    \E s \in Servers :
        /\ srv[s].pc = "reply"
        /\ srv[s].resp = "dup"
        /\ IsTerminal(status[srv[s].h])
        /\ Count(queue, srv[s].h) = 0
        /\ sent[srv[s].h] = 1

\* C36: a load_packet_status of H that runs while a worker saves H never
\* fails with "unable to find packet in queue": a request that has read
\* the status Received is answered with the position of H in the queue.
C36_ReceivedHasPosition ==
    \A s \in Servers :
        (srv[s].pc = "reply" /\ srv[s].seen = "Received") =>
            srv[s].resp = "pos"

\* C37: once a submit response that carries the status URL of H has been
\* returned, for a new packet or for a duplicate, a status request for H
\* finds H in the status map: it is not answered "no such package".
C37_AnsweredIsKnown ==
    [][\A s \in Servers :
          (srv[s].pc = "idle" /\ srv'[s].pc # "idle" /\ nstat' # nstat
              /\ srv'[s].h \in answered) =>
              srv'[s].resp # "nosuch"
      ]_vars

\* C38: while H stays Received in the status map, the position of H in
\* the queue, which is what load_packet_status reports, never increases:
\* a step leaves it as it is or lowers it by one.
C38_PositionNeverIncreases ==
    [][\A h \in Hashes :
          (/\ status[h] = "Received" /\ status'[h] = "Received"
           /\ Count(queue, h) > 0) =>
              /\ Count(queue', h) > 0
              /\ Position(queue', h) \in
                     {Position(queue, h), Position(queue, h) - 1}
      ]_vars

\* H is Received and second in the queue, and the save of the packet
\* ahead of it has marked that packet and is about to remove it
C38_Witness ==
    \E w \in Workers : \E h \in Hashes :
        /\ wk[w].pc = "dequeue"
        /\ queue = <<wk[w].h, h>>
        /\ h # wk[w].h
        /\ status[h] = "Received"

\* C35: a register call that fails validation creates nothing under the
\* registry root and leaves the queue and the status map unchanged, and so
\* does the rest of the request that made it: no step of an intake thread
\* that serves such a request changes the directories of the root, their
\* entries, the status map, the queue or the channel.
C35_RejectedLeavesNoTrace ==
    [][\A s \in Servers :
          (/\ srv'[s] # srv[s]
           /\ restarts' = restarts
           /\ nstat' = nstat
           /\ srv[s].h = 0 /\ srv'[s].h = 0) =>
              UNCHANGED <<dirs, files, status, queue, channel, sent>>
      ]_vars

\* register has rejected an upload while another packet is installed and
\* queued
C35_Witness ==
    \E s \in Servers :
        /\ srv[s].pc = "respond"
        /\ srv[s].resp = "400"
        /\ srv[s].h = 0
        /\ srv[s].scratch
        /\ queue # <<>>
        /\ dirs # {}

\* a register call has installed <root>/h/ and returned Ok
Installed(h) == \E r \in OkRetOf(h) : ~r[3]

Markers == {MARKER_RESULT, MARKER_ERROR}

C34_NameTakenFailsClean ==
    [][(drv.pc = "check" /\ Existing # {} /\ drv' # drv) =>
          \/ drv' = DrvIdle                  \* the process is killed
          \/ /\ drv'.pc = "done"
             /\ drv'.ret = "Err"
             /\ drv'.mine = 0
             /\ drv'.del = "none"
             /\ cont' = cont
             /\ image' = image
      ]_vars

\* a sandbox call has failed on the container that an earlier call left
\* behind
C34_Witness ==
    /\ drv.pc = "done"
    /\ drv.ret = "Err"
    /\ drv.timed
    /\ drv.mine = 0
    /\ calls = 2
    /\ cont[1] # "none"
    /\ cont[2] = "none"

\* thread t can take its next step
CanStep(t) ==
    Busy(t) /\ (AtEnd(t) \/ Step(t).k # "acq"
                  \/ Free(t, Step(t).l, Step(t).m))

\* C31: a thread in a Registry operation holds at most one of the three
\* locks; the root write guard is held only by register, from the
\* existence test to the drop that follows the directory creation; and
\* the threads never wait for each other in a cycle: a thread that runs an
\* operation and holds no lock does not keep the others from stepping, so
\* whenever some thread is in an operation, one of them can step.
C31_OneLockAtATime ==
    /\ \A t \in LockThreads :
          /\ Cardinality(lk.held[t]) <= 1
          /\ ~Busy(t) => lk.held[t] = {}
          /\ <<"root", "w">> \in lk.held[t] =>
                /\ lk.th[t].op \in {"register", "register (existed)"}
                /\ lk.th[t].at \in {2, 3}
    /\ (\E t \in LockThreads : Busy(t)) =>
           \E t \in LockThreads : CanStep(t)
    /\ \A t \in LockThreads :
          (Busy(t) /\ ~CanStep(t)) =>
              \E u \in LockThreads \ {t} :
                  /\ \E g \in lk.held[u] : g[1] = Step(t).l
                  /\ CanStep(u)

\* a register holds the root write guard while a save and a status request
\* wait for the root lock
C31_Witness ==
    \E t, u, v \in LockThreads :
        /\ <<"root", "w">> \in lk.held[t]
        /\ lk.th[u].op = "save" /\ ~CanStep(u)
        /\ lk.th[v].op = "load_packet_status (saved)" /\ ~CanStep(v)

C32_OnlyLeftSideCollides ==
    /\ \A f \in sb.failed :
          /\ f.call.side /\ f.with.side
          /\ f.call.by = f.with.by
    /\ \A c, d \in sb.live :
          (c.by # d.by \/ c.side # d.side) => c.name # d.name

=============================================================================
